---- MODULE Spec2Model ----
(***************************************************************************)
(* A model of dgabriele/store: an in-memory record store with per-field    *)
(* indices (store/indexer.py), CRUD (store/store.py), queries              *)
(* (store/query.py, store/predicate.py) and staged transactions            *)
(* (store/transaction.py).                                                 *)
(*                                                                         *)
(* A store is the record [records, keys, indices]:                         *)
(*   records : pkey -> record   (Store.records)                            *)
(*   keys    : pkey -> set of field names   (Indexer.keys, a defaultdict)  *)
(*   indices : field -> (coerced value -> set of pkeys)  (Indexer.indices) *)
(* A record is a function from a set of field names to values.  A value is *)
(* a pair <<tag, n>>; the tags tell Python's types apart.                  *)
(***************************************************************************)
EXTENDS Integers, FiniteSets, Sequences, TLC

VARIABLES back, front, created_pkeys, updated_pkeys, deleted_pkeys,
          uuids, last, result, ops, replay, identity, held, inflight, scope,
          lock, threads

vars == <<back, front, created_pkeys, updated_pkeys, deleted_pkeys,
          uuids, last, result, ops, replay, identity, held, inflight, scope,
          lock, threads>>

----------------------------------------------------------------------------
(* Bounds *)

MaxPkey == 1
MaxVal == 2
MaxUuid == 1
MaxOps == 4
MaxTxOps == 3
MaxQueryOps == 3
MaxConcOps == 5
MaxUpdateOps == 3
MaxIdentityOps == 3
MaxCopyOps == 3
MaxLockOps == 4
MaxScopeOps == 4
MaxCallbackOps == 3
MaxDeleteManyOps == 3
MaxPredicateOps == 3
MaxSelectOps == 3
MaxOrderOps == 4
MaxDeleteOps == 3
MaxHashOps == 3
MaxGetManyOps == 3
MaxSubscribeOps == 3
MaxCommitLockOps == 2
MaxHandleOps == 3
MaxLostUpdateOps == 4
MaxUpdateManyOps == 3

----------------------------------------------------------------------------
(* Values *)

(* the first component names the Python type; a uuid4().hex is a str that  *)
(* no caller passes                                                        *)
None == <<"NoneType", 0>>
IntV(n) == <<"int", n>>
StrV(n) == <<"str", n>>
ListV(n) == <<"list", n>>
SetV(n) == <<"set", n>>
TupleV(n) == <<"tuple", n>>
UuidV(n) == <<"hex", n>>
ByteArrayV(n) == <<"bytearray", n>>

pkey_name == "id"

Columns == {"a", "b"}

Fields == {pkey_name} \cup Columns

(* util.get_hashable: lists and sets become tuples, other hashable values  *)
(* are returned as they are.                                               *)
get_hashable(v) ==
    IF v[1] = "list" \/ v[1] = "set" THEN TupleV(v[2]) ELSE v

(* util.is_hashable: get_hashable raises NotHashable for a value that is   *)
(* not a dict, a list or a set and is not an instance of Hashable, as a    *)
(* bytearray is not                                                        *)
is_hashable(v) == v[1] # "bytearray"

----------------------------------------------------------------------------
(* dict helpers *)

EmptyDict == [x \in {} |-> {}]

Put(d, k, v) == [x \in (DOMAIN d) \cup {k} |-> IF x = k THEN v ELSE d[x]]

Del(d, k) == [x \in (DOMAIN d) \ {k} |-> d[x]]

(* dict.get(k, default) *)
Get(d, k, default) == IF k \in DOMAIN d THEN d[k] ELSE default

(* dict.update(other) *)
Merge(d, other) ==
    [x \in (DOMAIN d) \cup (DOMAIN other) |->
        IF x \in DOMAIN other THEN other[x] ELSE d[x]]

(* the result of a call: the state it leaves and whether it raised *)
Ret(s, err) == [s |-> s, err |-> err]

----------------------------------------------------------------------------
(* Indexer *)

NewIndexer == [keys |-> EmptyDict, indices |-> EmptyDict]

(* One pass of the loop of Indexer.insert for field f *)
InsertOne(indices, record, pkey, f) ==
    LET value == get_hashable(Get(record, f, None))
        index == Get(indices, f, EmptyDict)
    IN  Put(indices, f, Put(index, value, Get(index, value, {}) \cup {pkey}))

RECURSIVE InsertAll(_, _, _, _)
InsertAll(indices, record, pkey, ks) ==
    IF ks = {} THEN indices
    ELSE LET f == CHOOSE x \in ks : TRUE
         IN  InsertAll(InsertOne(indices, record, pkey, f), record, pkey,
                       ks \ {f})

(* the keys at which the loop of Indexer.insert raises NotHashable *)
InsertRaisesAt(record, ks) ==
    {f \in ks : ~is_hashable(Get(record, f, None))}

(* Indexer.insert: self.keys[pkey] |= keys comes before the loop; done:    *)
(* the fields the loop visited before the one that raised                  *)
Indexer_insert_many(ix, record, ks, done) ==
    LET pkey == record[pkey_name]
        keys1 == Put(ix.keys, pkey, Get(ix.keys, pkey, {}) \cup ks)
        bad == InsertRaisesAt(record, ks)
    IN  IF bad # {}
        THEN Ret([keys |-> keys1,
                  indices |-> InsertAll(ix.indices, record, pkey,
                                        done \cap (ks \ bad))], TRUE)
        ELSE Ret([keys |-> keys1,
                  indices |-> InsertAll(ix.indices, record, pkey, ks)],
                 FALSE)

(* Indexer.insert of a record whose values are hashable: no order of the   *)
(* loop matters                                                            *)
Indexer_insert(ix, record, ks) == Indexer_insert_many(ix, record, ks, {})

(* One pass of the loop of Indexer.remove for field f (which record has) *)
(* the loop body of Indexer.remove without the two `del` statements *)
RemoveOne_KeepEmpty(indices, record, pkey, f) ==
    IF f \notin DOMAIN indices THEN indices
    ELSE LET index == indices[f]
             value == get_hashable(record[f])
             pkey_set == Get(index, value, {})
         IN  IF pkey_set = {} THEN indices
             ELSE Put(indices, f, Put(index, value, pkey_set \ {pkey}))

RemoveOne(indices, record, pkey, f) ==
    IF f \notin DOMAIN indices THEN indices
    ELSE LET index == indices[f]
             value == get_hashable(record[f])
             pkey_set == Get(index, value, {})
         IN  IF pkey_set = {} THEN indices
             ELSE LET left == pkey_set \ {pkey}
                      index1 == IF left = {} THEN Del(index, value)
                                ELSE Put(index, value, left)
                  IN  IF DOMAIN index1 = {} THEN Del(indices, f)
                      ELSE Put(indices, f, index1)

RECURSIVE RemoveAll(_, _, _, _)
RemoveAll(indices, record, pkey, ks) ==
    IF ks = {} THEN indices
    ELSE LET f == CHOOSE x \in ks : TRUE
         IN  RemoveAll(RemoveOne(indices, record, pkey, f), record, pkey,
                       ks \ {f})

(* the keys at which the loop of Indexer.remove raises KeyError: the field *)
(* has an index and the record has no such field                           *)
RemoveRaisesAt(ix, record, ks) ==
    {f \in ks : /\ f \in DOMAIN ix.indices
                /\ \/ f \notin DOMAIN record
                   \/ ~is_hashable(record[f])}

DropIfEmpty(keys, pkey) ==
    IF Get(keys, pkey, {}) = {} THEN Del(keys, pkey) ELSE keys

(* done: the fields the loop visited before the one that raised (the       *)
(* iteration order of a Python set of strings is not fixed)                *)
Indexer_remove(ix, record, ksArg, done) ==
    LET pkey == record[pkey_name]
    IN  IF ksArg = {} /\ pkey \notin DOMAIN ix.keys
        THEN Ret(ix, TRUE)
        ELSE
        LET ks == IF ksArg # {} THEN ksArg ELSE ix.keys[pkey]
        IN  IF ks = {}
            THEN Ret([ix EXCEPT !.keys = DropIfEmpty(ix.keys, pkey)], FALSE)
            ELSE
            LET keys1 == Put(ix.keys, pkey, Get(ix.keys, pkey, {}) \ ks)
                bad == RemoveRaisesAt(ix, record, ks)
            IN  IF bad # {}
                THEN Ret([keys |-> keys1,
                          indices |-> RemoveAll(ix.indices, record, pkey,
                                                done \cap (ks \ bad))], TRUE)
                ELSE Ret([keys |-> DropIfEmpty(keys1, pkey),
                          indices |-> RemoveAll(ix.indices, record, pkey, ks)],
                         FALSE)

Indexer_update(ix, old_state, record, ks, done) ==
    LET pkey == record[pkey_name]
        ix0 == [ix EXCEPT !.keys = Put(ix.keys, pkey, Get(ix.keys, pkey, {}))]
        stale_keys == ix0.keys[pkey] \cap ks
        new_keys == ks \ ix0.keys[pkey]
    IN  CHOOSE o \in
            {IF r2.err THEN r2
             ELSE Indexer_insert_many(r2.s, record, new_keys, done) :
                r2 \in
                    {IF stale_keys # {} /\ ~r1.err
                     THEN Indexer_insert_many(r1.s, record, stale_keys, done)
                     ELSE r1 :
                        r1 \in
                            {IF stale_keys # {}
                             THEN Indexer_remove(ix0, old_state, stale_keys,
                                                 done)
                             ELSE Ret(ix0, FALSE)}}} : TRUE

----------------------------------------------------------------------------
(* Store *)

NewStore == [records |-> EmptyDict, keys |-> EmptyDict, indices |-> EmptyDict]

IndexerOf(st) == [keys |-> st.keys, indices |-> st.indices]

WithIndexer(records, ix) ==
    [records |-> records, keys |-> ix.keys, indices |-> ix.indices]

(* Store.pkey_factory: the record's own primary key, or a fresh uuid *)
pkey_factory(record, uuid) ==
    IF Get(record, pkey_name, None) # None THEN record[pkey_name] ELSE uuid

(* does pkey_factory draw a uuid for this record *)
NeedsUuid(record) == Get(record, pkey_name, None) = None

(* the result of a create: the store, whether it raised, the primary key   *)
(* of the created record, and the number of uuids drawn                    *)
Created(s, err, pkey, drawn) ==
    [s |-> s, err |-> err, pkey |-> pkey, drawn |-> drawn]

(* Store.create that indexes every field but the primary key *)
Store_create_ColumnsOnly(st, target, uuid) ==
    LET pkey == pkey_factory(target, uuid)
        record == Put(target, pkey_name, pkey)
        records1 == Put(st.records, pkey, record)
        r == Indexer_insert(IndexerOf(st), record,
                            (DOMAIN record) \ {pkey_name})
    IN  Created(WithIndexer(records1, r.s), r.err, pkey,
                IF NeedsUuid(target) THEN 1 ELSE 0)

(* Store.create_many for one target (Store.create) *)
Store_create(st, target, uuid) ==
    LET pkey == pkey_factory(target, uuid)
        record == Put(target, pkey_name, pkey)
        records1 == Put(st.records, pkey, record)
    IN  CHOOSE c \in
            {Created(WithIndexer(records1, r.s), r.err, pkey,
                     IF NeedsUuid(target) THEN 1 ELSE 0) :
                r \in {Indexer_insert(IndexerOf(st), record,
                                      DOMAIN record)}} : TRUE

(* Store.create_many for one target with any values: the record is stored  *)
(* before it is indexed; done is the order of the loop of Indexer.insert   *)
Store_create_many(st, target, uuid, done) ==
    LET pkey == pkey_factory(target, uuid)
        record == Put(target, pkey_name, pkey)
        records1 == Put(st.records, pkey, record)
        r == Indexer_insert_many(IndexerOf(st), record, DOMAIN record, done)
    IN  Created(WithIndexer(records1, r.s), r.err, pkey,
                IF NeedsUuid(target) THEN 1 ELSE 0)

(* Store.update; keysArg = {} stands for keys=None (and for an empty set,  *)
(* which `keys or record.keys()` treats alike)                             *)
Store_update(st, target, keysArg, done) ==
    IF pkey_name \notin DOMAIN target \/ target[pkey_name] \notin DOMAIN st.records
    THEN Ret(st, TRUE)
    ELSE
    LET pkey == target[pkey_name]
        ks == IF keysArg # {} THEN keysArg ELSE DOMAIN target
        old_state == st.records[pkey]
        existing_record == Merge(old_state, target)
    IN  CHOOSE o \in
            {Ret(WithIndexer(Put(st.records, pkey, existing_record), r.s),
                 r.err) :
                r \in {Indexer_update(IndexerOf(st), old_state,
                                      existing_record, ks, done)}} : TRUE

(* the loop of Store.delete that nulls the named fields the record has *)
NullKeys(record, ks) ==
    [f \in DOMAIN record |-> IF f \in ks THEN None ELSE record[f]]

(* Store.delete without a transaction; keysArg = {} stands for keys=None *)
Store_delete(st, pkey, keysArg, done) ==
    IF pkey \notin DOMAIN st.records THEN Ret(st, FALSE)
    ELSE IF keysArg = {}
    THEN CHOOSE o \in
             {Ret(WithIndexer(Del(st.records, pkey), r.s), r.err) :
                 r \in {Indexer_remove(IndexerOf(st), st.records[pkey], {},
                                       done)}} : TRUE
    ELSE LET old_record == st.records[pkey]
             record == NullKeys(old_record, keysArg)
             r == Indexer_update(IndexerOf(st), old_record, record, keysArg,
                                 done)
         IN  Ret(WithIndexer(Put(st.records, pkey, record), r.s), r.err)

(* Store.clear *)
Store_clear(st) == NewStore

(* Store.get: the record behind the handle that get returns; the empty     *)
(* dict stands for None                                                    *)
NoRecord == EmptyDict

Store_get(st, pkey) == Get(st.records, pkey, NoRecord)

(* Store.get_many: the records of the targets that exist; every record     *)
(* when `not targets`                                                      *)
Store_get_many(st, targets) ==
    IF targets = {} THEN st.records
    ELSE [pkey \in targets \cap DOMAIN st.records |-> st.records[pkey]]

----------------------------------------------------------------------------
(* Predicates *)

NoPredicate == [kind |-> "none"]

ConditionalExpression(op_code, key, value) ==
    [kind |-> "cond", op_code |-> op_code, key |-> key, value |-> value]

BooleanExpression(op_code, lhs, rhs) ==
    [kind |-> "bool", op_code |-> op_code, lhs |-> lhs, rhs |-> rhs]

(* the right-hand side of a ConditionalExpression is kept as the set of    *)
(* its coerced values: one value for EQ and NE, the collection for IN and  *)
(* NOT_IN                                                                  *)
Operand(p) == CHOOSE v \in p.value : TRUE

(* the keys of a BTree index in its order: None first, then the values of  *)
(* one type in their order                                                 *)
KeyRank(v) == IF v = None THEN 0 - 1 ELSE v[2]

Keys(index) ==
    CHOOSE keys \in [1..Cardinality(DOMAIN index) -> DOMAIN index] :
        \A i, j \in 1..Cardinality(DOMAIN index) :
            i < j => KeyRank(keys[i]) < KeyRank(keys[j])

(* x < y of Python raises TypeError when one of the two is None *)
LtRaises(x, y) == (x = None) # (y = None)

Lt(x, y) == KeyRank(x) < KeyRank(y)

(* bisect.bisect_left(keys, val) and bisect.bisect(keys, val), positions   *)
(* counted from 0; -1 stands for the TypeError of a comparison             *)
RECURSIVE bisect_left(_, _, _, _)
bisect_left(keys, val, lo, hi) ==
    IF lo >= hi THEN lo
    ELSE IF LtRaises(keys[((lo + hi) \div 2) + 1], val) THEN 0 - 1
    ELSE IF Lt(keys[((lo + hi) \div 2) + 1], val)
         THEN bisect_left(keys, val, ((lo + hi) \div 2) + 1, hi)
         ELSE bisect_left(keys, val, lo, (lo + hi) \div 2)

RECURSIVE bisect(_, _, _, _)
bisect(keys, val, lo, hi) ==
    IF lo >= hi THEN lo
    ELSE IF LtRaises(val, keys[((lo + hi) \div 2) + 1]) THEN 0 - 1
    ELSE IF Lt(val, keys[((lo + hi) \div 2) + 1])
         THEN bisect(keys, val, lo, (lo + hi) \div 2)
         ELSE bisect(keys, val, ((lo + hi) \div 2) + 1, hi)

(* the offset of the inequalities; constants.OP_CODE has LE and no LEQ, so *)
(* for LE the chain of elifs ends at `op_code == OP_CODE.LEQ` and the      *)
(* evaluation raises there or at `assert offset is not None`               *)
Offset(keys, p) ==
    CASE p.op_code = "GE" -> bisect_left(keys, Operand(p), 0, Len(keys))
      [] p.op_code = "GT" -> bisect(keys, Operand(p), 0, Len(keys))
      [] p.op_code = "LT" -> bisect_left(keys, Operand(p), 0, Len(keys))
      [] OTHER -> 0 - 1

(* keys[interval], as the set of the positions counted from 1 *)
Interval(keys, p) ==
    IF p.op_code \in {"GE", "GT"} THEN (Offset(keys, p) + 1)..Len(keys)
    ELSE 1..Offset(keys, p)

RangeOps == {"GE", "GT", "LT", "LE"}

(* Predicate.evaluate on a ConditionalExpression raises *)
EvaluateCondRaises(st, p) ==
    /\ p.op_code \in RangeOps
    /\ DOMAIN Get(st.indices, p.key, EmptyDict) # {}
    /\ Offset(Keys(st.indices[p.key]), p) < 0

(* Predicate.evaluate on a ConditionalExpression that does not raise *)
EvaluateCond(st, p) ==
    LET index == Get(st.indices, p.key, EmptyDict)
    IN  IF DOMAIN index = {} THEN {}
        ELSE CASE p.op_code = "EQ" -> Get(index, Operand(p), {})
               [] p.op_code = "NE" ->
                    UNION {index[v] : v \in {x \in DOMAIN index : x # Operand(p)}}
               [] p.op_code = "IN" ->
                    UNION {Get(index, v, {}) : v \in p.value}
               [] p.op_code = "NOT_IN" ->
                    UNION {index[v] : v \in {x \in DOMAIN index : x \notin p.value}}
               [] OTHER ->
                    UNION {index[Keys(index)[i]] :
                             i \in {j \in Interval(Keys(index), p) :
                                       Keys(index)[j] # None}}

RECURSIVE Predicate_evaluate(_, _)
Predicate_evaluate(st, p) ==
    IF p.kind = "none" THEN DOMAIN st.records
    ELSE IF p.kind = "cond" THEN EvaluateCond(st, p)
    ELSE LET lhs_result == Predicate_evaluate(st, p.lhs)
         IN  IF p.op_code = "AND"
             THEN IF lhs_result # {}
                  THEN lhs_result \cap Predicate_evaluate(st, p.rhs)
                  ELSE {}
             ELSE lhs_result \cup Predicate_evaluate(st, p.rhs)

(* Predicate.evaluate raises: an AND does not evaluate its right-hand side *)
(* when the left-hand side is empty                                        *)
RECURSIVE Predicate_raises(_, _)
Predicate_raises(st, p) ==
    IF p.kind = "none" THEN FALSE
    ELSE IF p.kind = "cond" THEN EvaluateCondRaises(st, p)
    ELSE \/ Predicate_raises(st, p.lhs)
         \/ /\ p.op_code = "OR" \/ Predicate_evaluate(st, p.lhs) # {}
            /\ Predicate_raises(st, p.rhs)

----------------------------------------------------------------------------
(* Query *)

(* Query.execute(first=False) of a query with no selection, ordering or    *)
(* pagination and no callback: the mapping from primary key to record      *)
Query_execute(st, predicate) ==
    IF predicate.kind = "none" THEN Store_get_many(st, {})
    ELSE Store_get_many(st, Predicate_evaluate(st, predicate))

(* Query.execute(first=True): None when no record is fetched, otherwise    *)
(* records[0], where records lists the values of get_many in the order in  *)
(* which the set of primary keys is iterated: any of the fetched records   *)
Query_execute_first(st, predicate) ==
    LET records == Query_execute(st, predicate)
    IN  IF DOMAIN records = {} THEN {NoRecord}
        ELSE {records[pkey] : pkey \in DOMAIN records}

----------------------------------------------------------------------------
(* Transaction: the world is the back store, the front store, the journal  *)
(* and the number of uuids drawn so far                                    *)

World(b, f, c, u, d, n) ==
    [back |-> b, front |-> f, created |-> c, updated |-> u, deleted |-> d,
     uuids |-> n]

(* the outcome of a call: the world it leaves, whether it raised, and the  *)
(* primary key it was about (None when it is about none)                   *)
Out(w, err, pkey) == [w |-> w, err |-> err, pkey |-> pkey]

NextUuid(w) == UuidV(w.uuids + 1)

(* Store.create / update / delete / clear called on the back store *)
Back_create(w, target) ==
    LET r == Store_create(w.back, target, NextUuid(w))
    IN  Out([w EXCEPT !.back = r.s, !.uuids = @ + r.drawn], r.err, r.pkey)

Back_update(w, target, ks, done) ==
    CHOOSE o \in
        {Out([w EXCEPT !.back = r.s], r.err, target[pkey_name]) :
            r \in {Store_update(w.back, target, ks, done)}} : TRUE

Back_delete(w, pkey, ks, done) ==
    CHOOSE o \in
        {Out([w EXCEPT !.back = r.s], r.err, pkey) :
            r \in {Store_delete(w.back, pkey, ks, done)}} : TRUE

Back_clear(w) == Out([w EXCEPT !.back = Store_clear(w.back)], FALSE, None)

(* Transaction.create: front.create(record, transaction=self) *)
(* Transaction.create with the back store in place of the front store *)
Transaction_create_InBack(w, target) ==
    LET r == Store_create(w.back, target, NextUuid(w))
    IN  Out([w EXCEPT !.back = r.s,
                      !.uuids = @ + r.drawn,
                      !.created = IF r.err THEN @ ELSE @ \cup {r.pkey}],
            r.err, r.pkey)

(* Transaction.create: front.create(record, transaction=self) *)
Transaction_create(w, target) ==
    LET r == Store_create(w.front, target, NextUuid(w))
    IN  Out([w EXCEPT !.front = r.s,
                      !.uuids = @ + r.drawn,
                      !.created = IF r.err THEN @ ELSE @ \cup {r.pkey}],
            r.err, r.pkey)

(* the copy of a back record that Transaction.get and Transaction.update   *)
(* load into the front store: front.create(back.get(pkey)); a missing back *)
(* record reaches create as None, which to_dict turns into an empty dict   *)
LoadIntoFront(w, pkey) ==
    LET r == Store_create(w.front, Store_get(w.back, pkey), NextUuid(w))
    IN  [w |-> [w EXCEPT !.front = r.s, !.uuids = @ + r.drawn],
         err |-> r.err, pkey |-> r.pkey]

(* Transaction.get: the world it leaves and the record it returns *)
Transaction_get(w, pkey) ==
    IF pkey \in w.deleted THEN [w |-> w, record |-> NoRecord]
    ELSE IF pkey \notin DOMAIN w.front.records
    THEN IF pkey \notin DOMAIN w.back.records
         THEN [w |-> w, record |-> NoRecord]
         ELSE LET r == LoadIntoFront(w, pkey)
              IN  [w |-> r.w, record |-> r.w.front.records[r.pkey]]
    ELSE [w |-> w, record |-> Store_get(w.front, pkey)]

(* Transaction.update *)
Transaction_update(w, target, ks, done) ==
    LET pkey == target[pkey_name]
        w1 == IF pkey \notin DOMAIN w.front.records
              THEN LoadIntoFront(w, pkey).w
              ELSE w
        r == Store_update(w1.front, target, ks, done)
    IN  Out([w1 EXCEPT !.front = r.s,
                       !.updated = IF r.err THEN @ ELSE @ \cup {pkey}],
            r.err, pkey)

(* Transaction.delete: front.delete(target, keys, transaction=self).  With *)
(* keys, Store.delete ends in transaction.updated_pkeys[pkey].update(keys) *)
(* on a set, which raises TypeError after the front record was changed     *)
Transaction_delete(w, pkey, ks, done) ==
    LET r == Store_delete(w.front, pkey, ks, done)
    IN  IF ks = {}
        THEN Out([w EXCEPT !.front = r.s, !.deleted = @ \cup {pkey}], r.err,
                 pkey)
        ELSE Out([w EXCEPT !.front = r.s], pkey \in DOMAIN w.front.records,
                 pkey)

(* Transaction.clear that keeps the front store *)
Transaction_clear_KeepFront(w) ==
    [w EXCEPT !.created = {}, !.updated = {}, !.deleted = {}]

(* Transaction.clear *)
Transaction_clear(w) ==
    [w EXCEPT !.front = Store_clear(w.front), !.created = {}, !.updated = {},
              !.deleted = {}]

(* Transaction.rollback *)
Transaction_rollback(w) == Out(Transaction_clear(w), FALSE, None)

(* the calls of a commit on the back store, one per record: kind is the    *)
(* phase and order the order in which the phase iterates its set           *)
Calls(kind, order) == [i \in 1..Len(order) |-> <<kind, order[i]>>]

(* back.create_many(front.records[pkey] for pkey in created): the lookup   *)
(* in front.records raises KeyError for a missing key; create_many writes  *)
(* the primary key into the dict it is given, which is the front's record  *)
CommitCreateOne(w, pkey) ==
    IF pkey \notin DOMAIN w.front.records THEN Out(w, TRUE, pkey)
    ELSE LET target == w.front.records[pkey]
         IN  CHOOSE o \in
                 {Out([w EXCEPT !.back = r.s,
                                !.uuids = @ + r.drawn,
                                !.front.records =
                                    Put(@, pkey,
                                        Put(target, pkey_name, r.pkey))],
                      r.err, pkey) :
                     r \in {Store_create(w.back, target, NextUuid(w))}} :
                 TRUE

(* back.update_many(front.records[pkey] for pkey in updated): a record     *)
(* whose primary key is not in back.records is skipped                     *)
CommitUpdateOne(w, pkey, done) ==
    IF pkey \notin DOMAIN w.front.records THEN Out(w, TRUE, pkey)
    ELSE LET record == w.front.records[pkey]
         IN  IF record[pkey_name] \in DOMAIN w.back.records
             THEN Back_update(w, record, {}, done)
             ELSE Out(w, FALSE, pkey)

(* one call of a commit: back.delete(pkey) of delete_many, or the create   *)
(* or update of one record                                                 *)
CommitCall(w, call, done) ==
    CASE call[1] = "delete" -> Back_delete(w, call[2], {}, done)
      [] call[1] = "create" -> CommitCreateOne(w, call[2])
      [] call[1] = "update" -> CommitUpdateOne(w, call[2], done)

(* the calls in order, up to the first that raises *)
RECURSIVE Replay(_, _, _)
Replay(o, calls, done) ==
    IF o.err \/ calls = <<>> THEN o
    ELSE Replay(CommitCall(o.w, Head(calls), done), Tail(calls), done)

(* self.clear() at the end of a commit that did not raise *)
CommitClear(o) ==
    IF o.err THEN o ELSE Out(Transaction_clear(o.w), FALSE, None)

(* Transaction.commit with no callback: the deletes, then the creates,     *)
(* then the updates; dorder, corder and uorder are the orders in which the *)
(* three sets are iterated                                                 *)
Transaction_commit(w, dorder, corder, uorder, done) ==
    CommitClear(Replay(Out(w, FALSE, None),
                       Calls("delete", dorder) \o Calls("create", corder)
                           \o Calls("update", uorder),
                       done))

(* Transaction.select(): the guard that keeps the journaled primary keys   *)
(* out of the back query, AND-ed with the caller's where-predicate         *)
Transaction_select(w, predicate) ==
    LET front_pkeys == w.deleted \cup w.created \cup w.updated
        guard == ConditionalExpression("NOT_IN", pkey_name,
                                       {get_hashable(p) : p \in front_pkeys})
    IN  IF predicate.kind = "none" THEN guard
        ELSE BooleanExpression("AND", guard, predicate)

(* Query.execute(first=False) of the query of Transaction.select: an empty *)
(* back result returns before the callbacks run; otherwise merge() updates *)
(* the back result with the result of the copied query on the front store  *)
Transaction_execute(w, predicate) ==
    LET query == Transaction_select(w, predicate)
        back_result == Query_execute(w.back, query)
    IN  IF DOMAIN back_result = {} THEN EmptyDict
        ELSE Merge(back_result, Query_execute(w.front, query))

----------------------------------------------------------------------------
(* Inputs *)

(* An index is a BTree, whose keys must be comparable with each other: the *)
(* primary keys are strings, as the generated ones are, column "a" holds   *)
(* integers and column "b" holds sequences                                 *)
PKeys == {StrV(n) : n \in 1..MaxPkey}

ValuesOf(column) ==
    IF column = "a" THEN {IntV(n) : n \in 1..MaxVal}
    ELSE {ListV(1), TupleV(1)}

InputVals == UNION {ValuesOf(c) : c \in Columns}

(* the dicts a caller passes: any subset of the columns, with or without   *)
(* a primary key                                                           *)
ColumnDicts ==
    UNION {{d \in [cs -> InputVals] : \A c \in cs : d[c] \in ValuesOf(c)} :
              cs \in SUBSET Columns}

KeySets == SUBSET Fields

(* the orders in which a set can be iterated *)
Perms(S) ==
    {seq \in [1..Cardinality(S) -> S] :
        \A i, j \in 1..Cardinality(S) : seq[i] = seq[j] => i = j}

(* the sets of fields a loop over a set may have visited before it raised; *)
(* a call that does not raise visits them all, whatever the order          *)
Orders(raises) == IF raises THEN SUBSET Fields ELSE {{}}

(* the where-predicates of the queries: comparisons of a column with a     *)
(* coerced value, and their negations                                      *)
Predicates ==
    {NoPredicate}
    \cup UNION {{ConditionalExpression(op, k, {get_hashable(v)}) :
                    op \in {"EQ", "NE", "IN", "NOT_IN"}, v \in ValuesOf(k)} :
                 k \in Columns}

----------------------------------------------------------------------------
(* State and steps *)

Cur == World(back, front, created_pkeys, updated_pkeys, deleted_pkeys, uuids)

(* the last call: its name, whether it raised, the primary key it was     *)
(* about and, for commit and rollback, the journal it found               *)
Last(op, err, pkey) ==
    [op |-> op, err |-> err, pkey |-> pkey, journal |-> {}]

NoResult == [kind |-> "none"]

(* a commit in progress holds back.lock; pending lists the calls it has    *)
(* still to make on the back store, pre is the back store it found and     *)
(* post the back store it will leave                                       *)
Idle == [active |-> FALSE, pending |-> <<>>, pre |-> NewStore,
         post |-> NewStore]

(* back.identity, a WeakValueDictionary, as the function from primary key  *)
(* to the handle it holds; held is the set of handles the caller keeps     *)
NoHandles == [x \in {} |-> {}]

(* the call of Store.update that a second thread has begun: Store.update   *)
(* reads the record before it takes the lock                               *)
NoCall == [active |-> FALSE]

(* the with-block of `with store.transaction() as trans:` and the back     *)
(* store as __enter__ found it                                             *)
NoScope == [open |-> FALSE, entry |-> NewStore]

(* Store.lock, an RLock: the thread that owns it, 0 for none, and the      *)
(* number of times the owner has acquired it                               *)
NoLock == [owner |-> 0, count |-> 0]

(* the threads that commit transactions of their own on one back store *)
NoThreads == <<>>

(* the next state is the world w; a call that would draw more uuids than   *)
(* the model has is left out                                               *)
Goes(w) ==
    \E v \in {w} :
        /\ UNCHANGED <<lock, threads>>
        /\ v.uuids <= MaxUuid
        /\ back' = v.back
        /\ front' = v.front
        /\ created_pkeys' = v.created
        /\ updated_pkeys' = v.updated
        /\ deleted_pkeys' = v.deleted
        /\ uuids' = v.uuids

(* a call of a caller that keeps no handle (a handle that is not kept is   *)
(* reclaimed and leaves the weak identity map), made by the only thread    *)
(* and outside a with-block                                                *)
Moves(w) == Goes(w) /\ UNCHANGED <<identity, held, inflight, scope>>

Becomes(w) == Moves(w) /\ replay' = replay

(* the step of a call with outcome o *)
Step(o, op) ==
    \E out \in {o} :
        /\ Becomes(out.w)
        /\ last' = Last(op, out.err, out.pkey)
        /\ result' = NoResult

Init ==
    /\ back = NewStore
    /\ front = NewStore
    /\ created_pkeys = {}
    /\ updated_pkeys = {}
    /\ deleted_pkeys = {}
    /\ uuids = 0
    /\ last = Last("init", FALSE, None)
    /\ result = NoResult
    /\ ops = 0
    /\ replay = Idle
    /\ identity = NoHandles
    /\ held = {}
    /\ inflight = NoCall
    /\ scope = NoScope
    /\ lock = NoLock
    /\ threads = NoThreads

----------------------------------------------------------------------------
(* The store alone: calls on one Store, no transaction *)

Create(target) == Step(Back_create(Cur, target), "create")

(* a call that raises leaves what its loop had done before, in any of the  *)
(* orders of the loop                                                      *)
Update(target, ks) ==
    \E o \in {Back_update(Cur, target, ks, {})} :
        \E out \in (IF o.err
                    THEN {Back_update(Cur, target, ks, done) :
                            done \in Orders(TRUE)}
                    ELSE {o}) :
            Step(out, IF ks = {} THEN "update" ELSE "update_keys")

Delete(pkey, ks) ==
    \E o \in {Back_delete(Cur, pkey, ks, {})} :
        \E out \in (IF o.err
                    THEN {Back_delete(Cur, pkey, ks, done) :
                            done \in Orders(TRUE)}
                    ELSE {o}) :
            Step(out, IF ks = {} THEN "delete" ELSE "delete_keys")

Clear == Step(Back_clear(Cur), "clear")

(* the targets of update: dicts that carry a primary key, of a record of   *)
(* the store or not                                                        *)
Keyed(dicts, pkeys) == {Put(d, pkey_name, p) : d \in dicts, p \in pkeys}

(* the calls on the store whose dicts are drawn from dicts and whose field *)
(* sets are drawn from keysets                                             *)

StoreCalls(dicts, keysets) ==
    \/ \E target \in dicts \cup Keyed(dicts, PKeys) : Create(target)
    \/ \E target \in Keyed(dicts, PKeys \cup DOMAIN back.records),
          ks \in keysets : Update(target, ks)
    \/ \E pkey \in DOMAIN back.records, ks \in keysets : Delete(pkey, ks)
    \/ Clear

StoreCall == StoreCalls(ColumnDicts, KeySets)

StoreNext ==
    /\ ops < MaxOps
    /\ ops' = ops + 1
    /\ StoreCall

SpecStore == Init /\ [][StoreNext]_vars

----------------------------------------------------------------------------
(* Queries on the store alone *)

(* store.select().where(predicate).execute() *)
Execute(predicate) ==
    /\ Becomes(Cur)
    /\ last' = Last("execute", FALSE, None)
    /\ result' = [kind |-> "records", predicate |-> predicate,
                  records |-> Query_execute(back, predicate)]

(* store.select().where(predicate).execute(first=True) *)
ExecuteFirst(predicate) ==
    \E record \in Query_execute_first(back, predicate) :
        /\ Becomes(Cur)
        /\ last' = Last("execute_first", FALSE, None)
        /\ result' = [kind |-> "record", predicate |-> predicate,
                      record |-> record]

QueryNext ==
    /\ ops < MaxQueryOps
    /\ ops' = ops + 1
    /\ \/ StoreCall
       \/ \E predicate \in Predicates : Execute(predicate)
       \/ \E predicate \in Predicates : ExecuteFirst(predicate)

SpecQuery == Init /\ [][QueryNext]_vars

(* the query that was executed has a predicate that no record matches *)
SelectsNone ==
    /\ last.op \in {"execute", "execute_first"}
    /\ result.predicate.kind # "none"
    /\ Predicate_evaluate(back, result.predicate) = {}

(* C5: a query whose predicate evaluates to the empty set of primary keys  *)
(* returns None in single mode and an empty mapping otherwise.             *)
C5_EmptySelection ==
    SelectsNone =>
        IF last.op = "execute" THEN DOMAIN result.records = {}
        ELSE result.record = NoRecord

----------------------------------------------------------------------------
(* One transaction on the store, with calls on the store itself between    *)
(* the calls on the transaction                                            *)

TxCreate(target) == Step(Transaction_create(Cur, target), "tx_create")

TxUpdate(target, ks) ==
    \E o \in {Transaction_update(Cur, target, ks, {})} :
        \E out \in (IF o.err
                    THEN {Transaction_update(Cur, target, ks, done) :
                            done \in Orders(TRUE)}
                    ELSE {o}) :
            Step(out, "tx_update")

TxDelete(pkey, ks) ==
    \E o \in {Transaction_delete(Cur, pkey, ks, {})} :
        \E out \in (IF o.err
                    THEN {Transaction_delete(Cur, pkey, ks, done) :
                            done \in Orders(TRUE)}
                    ELSE {o}) :
            Step(out, IF ks = {} THEN "tx_delete" ELSE "tx_delete_keys")

TxGet(pkey) ==
    \E r \in {Transaction_get(Cur, pkey)} :
        /\ Becomes(r.w)
        /\ last' = Last("tx_get", FALSE, pkey)
        /\ result' = [kind |-> "record", record |-> r.record]

Journal == created_pkeys \cup updated_pkeys \cup deleted_pkeys

Commit(dorder, corder, uorder) ==
    \E o \in {Transaction_commit(Cur, dorder, corder, uorder, {})} :
        \E out \in (IF o.err
                    THEN {Transaction_commit(Cur, dorder, corder, uorder,
                                             done) : done \in Orders(TRUE)}
                    ELSE {o}) :
            /\ Becomes(out.w)
            /\ last' = [Last("commit", out.err, None)
                           EXCEPT !.journal = Journal]
            /\ result' = NoResult

Rollback ==
    /\ Becomes(Transaction_rollback(Cur).w)
    /\ last' = [Last("rollback", FALSE, None) EXCEPT !.journal = Journal]
    /\ result' = NoResult

(* transaction.select().where(predicate).execute() *)
TxSelect(predicate) ==
    /\ Becomes(Cur)
    /\ last' = Last("tx_select", FALSE, None)
    /\ result' = [kind |-> "records", predicate |-> predicate,
                  records |-> Transaction_execute(Cur, predicate)]

(* the primary keys a caller can name: those of the model, those of the    *)
(* records of the back store and those the transaction has returned        *)
KnownPKeys == PKeys \cup DOMAIN back.records \cup Journal

(* the calls on the transaction, with the same parameters *)
TxCalls(dicts, keysets, predicates) ==
    \/ \E target \in dicts \cup Keyed(dicts, PKeys) : TxCreate(target)
    \/ \E target \in Keyed(dicts, KnownPKeys), ks \in keysets :
            TxUpdate(target, ks)
    \/ \E pkey \in KnownPKeys, ks \in keysets : TxDelete(pkey, ks)
    \/ \E pkey \in KnownPKeys : TxGet(pkey)
    \/ \E dorder \in Perms(deleted_pkeys),
          corder \in Perms(created_pkeys \ deleted_pkeys),
          uorder \in Perms(updated_pkeys \ deleted_pkeys) :
            Commit(dorder, corder, uorder)
    \/ Rollback
    \/ \E predicate \in predicates : TxSelect(predicate)

(* the transaction is exercised on column "a", with field sets of at most  *)
(* one field                                                               *)
TxDicts == {d \in ColumnDicts : DOMAIN d \subseteq {"a"}}

TxKeySets == {{}} \cup {{f} : f \in Fields}

TxPredicates ==
    {p \in Predicates : p.kind = "cond" => p.key = "a"}

(* the stores a transaction can start on: the empty store and the stores   *)
(* that one Store.create made of it                                        *)
SeedStores ==
    {NewStore}
    \cup {Store_create(NewStore, r, None).s : r \in Keyed(TxDicts, PKeys)}

TxInit ==
    /\ back \in SeedStores
    /\ front = NewStore
    /\ created_pkeys = {}
    /\ updated_pkeys = {}
    /\ deleted_pkeys = {}
    /\ uuids = 0
    /\ last = Last("init", FALSE, None)
    /\ result = NoResult
    /\ ops = 0
    /\ replay = Idle
    /\ identity = NoHandles
    /\ held = {}
    /\ inflight = NoCall
    /\ scope = NoScope
    /\ lock = NoLock
    /\ threads = NoThreads

TxNext ==
    /\ ops < MaxTxOps
    /\ ops' = ops + 1
    /\ \/ StoreCalls(TxDicts, TxKeySets)
       \/ TxCalls(TxDicts, TxKeySets, TxPredicates)

SpecTxn == TxInit /\ [][TxNext]_vars

----------------------------------------------------------------------------
(* A commit, call by call on the back store, and the readers of the back   *)
(* store in another thread.  Transaction.commit holds back.lock from its   *)
(* first call to its last; Store.get_many (and Store.get through it) waits *)
(* for the lock; Store.__len__, Store.__contains__ and Predicate.evaluate  *)
(* (called by Query.execute before get_many) do not take it.               *)

(* `with self.back.lock:` in Transaction.commit *)
CommitBegin(dorder, corder, uorder) ==
    /\ ~replay.active
    /\ Journal # {}
    /\ \E o \in {Transaction_commit(Cur, dorder, corder, uorder, {})} :
           /\ ~o.err
           /\ replay' = [active |-> TRUE,
                         pending |-> Calls("delete", dorder)
                                     \o Calls("create", corder)
                                     \o Calls("update", uorder),
                         pre |-> back, post |-> o.w.back]
    /\ Moves(Cur)
    /\ last' = Last("commit_begin", FALSE, None)
    /\ result' = NoResult

(* the next call of delete_many, create_many or update_many on one record *)
CommitStep ==
    /\ replay.active
    /\ replay.pending # <<>>
    /\ \E o \in {CommitCall(Cur, Head(replay.pending), {})} :
           /\ Moves(o.w)
           /\ last' = Last("commit_step", o.err, o.pkey)
    /\ replay' = [replay EXCEPT !.pending = Tail(@)]
    /\ result' = NoResult

(* self.clear() and the release of the lock *)
CommitEnd ==
    /\ replay.active
    /\ replay.pending = <<>>
    /\ Moves(Transaction_clear(Cur))
    /\ replay' = Idle
    /\ last' = Last("commit_end", FALSE, None)
    /\ result' = NoResult

(* what a reader sees of a store *)
Observe(what, st) ==
    CASE what.op = "len" -> Cardinality(DOMAIN st.records)
      [] what.op = "contains" -> what.pkey \in DOMAIN st.records
      [] what.op = "get" -> Store_get(st, what.pkey)
      [] what.op = "evaluate" -> Predicate_evaluate(st, what.predicate)

Read(what) ==
    /\ Becomes(Cur)
    /\ last' = last
    /\ result' = [kind |-> "observed", what |-> what,
                  value |-> Observe(what, back)]

(* len(store) *)
ReadLen == Read([op |-> "len"])

(* pkey in store *)
ReadContains(pkey) == Read([op |-> "contains", pkey |-> pkey])

(* Predicate.evaluate(store, predicate), from Query.execute *)
ReadEvaluate(predicate) ==
    Read([op |-> "evaluate", predicate |-> predicate])

(* store.get(pkey), which takes the lock in get_many *)
ReadGet(pkey) ==
    /\ ~replay.active
    /\ Read([op |-> "get", pkey |-> pkey])

(* the calls that fill the journal, made while no commit is in progress *)
Journaling ==
    /\ ~replay.active
    /\ \/ \E target \in TxDicts \cup Keyed(TxDicts, PKeys) : TxCreate(target)
       \/ \E target \in Keyed(TxDicts, KnownPKeys) : TxUpdate(target, {})
       \/ \E pkey \in KnownPKeys : TxDelete(pkey, {})

ConcNext ==
    /\ ops < MaxConcOps
    /\ ops' = ops + 1
    /\ \/ Journaling
       \/ \E dorder \in Perms(deleted_pkeys),
             corder \in Perms(created_pkeys \ deleted_pkeys),
             uorder \in Perms(updated_pkeys \ deleted_pkeys) :
               CommitBegin(dorder, corder, uorder)
       \/ CommitStep
       \/ CommitEnd
       \/ ReadLen
       \/ \E pkey \in KnownPKeys : ReadContains(pkey)
       \/ \E predicate \in TxPredicates : ReadEvaluate(predicate)
       \/ \E pkey \in KnownPKeys : ReadGet(pkey)

SpecConc == TxInit /\ [][ConcNext]_vars

(* C4: while a commit is in progress, what a reader of the back store sees *)
(* is what the back store showed before the commit or what it shows after  *)
(* it: no reader sees a part of the journal applied.                       *)
C4_AtomicCommit ==
    (result.kind = "observed" /\ replay.active) =>
        \/ result.value = Observe(result.what, replay.pre)
        \/ result.value = Observe(result.what, replay.post)

----------------------------------------------------------------------------
(* Claims about the transaction *)

(* the record transaction.get(pkey) returns *)
TxRecord(pkey) == Transaction_get(Cur, pkey).record

(* the records created or updated, and not deleted, in the transaction *)
Staged == (created_pkeys \cup updated_pkeys) \ deleted_pkeys

(* C1: a call of Transaction.create, Transaction.update (a write through a *)
(* handle of Transaction.get is such a call) or Transaction.get leaves the *)
(* back store as it was, so that store.get returns the pre-transaction     *)
(* record and a created key is not added to back.records, and              *)
(* transaction.get of a created or updated key returns the front record.   *)
C1_Isolation ==
    [][last'.op \in {"tx_create", "tx_update", "tx_get"} =>
          /\ back' = back
          /\ \A pkey \in Staged' :
                /\ pkey \in DOMAIN front'.records
                /\ TxRecord(pkey)' = front'.records[pkey]]_vars

(* an update in the transaction has changed a record that the back store   *)
(* still holds in its old state                                            *)
C1_Witness ==
    /\ last.op = "tx_update"
    /\ ~last.err
    /\ last.pkey \in updated_pkeys
    /\ last.pkey \in DOMAIN back.records
    /\ TxRecord(last.pkey) # Store_get(back, last.pkey)

(* C2: after a commit that returns, every key updated and not deleted in   *)
(* the transaction is a key of the back store (the part of the claim about *)
(* the presence of the updated records).                                   *)
C2_CommitAppliesUpdates ==
    [][(last'.op = "commit" /\ ~last'.err) =>
          \A pkey \in updated_pkeys \ deleted_pkeys :
              pkey \in DOMAIN back'.records]_vars

RECURSIVE Satisfies(_, _)
Satisfies(record, p) ==
    IF p.kind = "none" THEN TRUE
    ELSE IF p.kind = "bool"
    THEN IF p.op_code = "AND"
         THEN Satisfies(record, p.lhs) /\ Satisfies(record, p.rhs)
         ELSE Satisfies(record, p.lhs) \/ Satisfies(record, p.rhs)
    ELSE /\ p.key \in DOMAIN record
         /\ LET value == get_hashable(record[p.key])
            IN  CASE p.op_code = "EQ" -> value = Operand(p)
                  [] p.op_code = "NE" -> value # Operand(p)
                  [] p.op_code = "IN" -> value \in p.value
                  [] p.op_code = "NOT_IN" -> value \notin p.value

(* C6: the result of a query of Transaction.select holds every record      *)
(* created or updated, and not deleted, in the transaction that satisfies  *)
(* the predicate, with its front-store values (the part of the claim about *)
(* the records of the transaction).                                        *)
C6_SelectUnion ==
    result.kind = "records" =>
        \A pkey \in Staged \cap DOMAIN front.records :
            Satisfies(front.records[pkey], result.predicate) =>
                /\ pkey \in DOMAIN result.records
                /\ result.records[pkey] = front.records[pkey]

----------------------------------------------------------------------------
(* The invariants of the data model, for a store st *)

(* (I1) a primary key is in records iff it is in indexer.keys *)
I1(st) == DOMAIN st.records = DOMAIN st.keys

(* pkey is posted at the coerced value of field f of its record (a field  *)
(* the record lacks reads as None, as record.get does in Indexer.insert)   *)
Posted(st, pkey, f) ==
    /\ f \in DOMAIN st.indices
    /\ LET value == get_hashable(Get(st.records[pkey], f, None))
       IN  /\ value \in DOMAIN st.indices[f]
           /\ pkey \in st.indices[f][value]

(* (I2) every field listed for a record is indexed at the record's value *)
I2(st) ==
    \A pkey \in (DOMAIN st.keys) \cap (DOMAIN st.records) :
        \A f \in st.keys[pkey] : Posted(st, pkey, f)

(* (I3) no posting set is empty and no per-field index is empty *)
I3(st) ==
    \A f \in DOMAIN st.indices :
        /\ DOMAIN st.indices[f] # {}
        /\ \A value \in DOMAIN st.indices[f] : st.indices[f][value] # {}

(* (I4) the primary-key field has no index *)
I4(st) ==
    /\ pkey_name \notin DOMAIN st.indices
    /\ \A pkey \in DOMAIN st.keys : pkey_name \notin st.keys[pkey]

----------------------------------------------------------------------------
(* Claims about the invariants, on the store alone *)

Updated == last.op \in {"update", "update_keys"} /\ ~last.err

(* C7: (I2) holds after any sequence of create, update and delete calls;   *)
(* here, an update that returns on a store where (I2) holds leaves a store *)
(* where (I2) holds.                                                       *)
C7_I2AfterUpdate == [][(I2(back) /\ Updated') => I2(back')]_vars

C9_I1 == I1(back)

(* C10: (I3) holds in every reachable state of the store: no posting set   *)
(* is empty and no per-field index is empty.                               *)
C10_I3 == I3(back)

(* a delete has removed a record, and with it the last posting of a value, *)
(* from a store that keeps another record and its indices                  *)
C10_Witness ==
    /\ last.op = "delete"
    /\ ~last.err
    /\ last.pkey \notin DOMAIN back.records
    /\ DOMAIN back.records # {}
    /\ DOMAIN back.indices # {}
    /\ \A value \in DOMAIN back.indices[pkey_name] :
          last.pkey \notin back.indices[pkey_name][value]

----------------------------------------------------------------------------
(* Claims about the calls of the store *)

(* pkey is in no posting set of any index of st *)
Unposted(st, pkey) ==
    \A f \in DOMAIN st.indices :
        \A value \in DOMAIN st.indices[f] : pkey \notin st.indices[f][value]

(* C11: a full Store.delete of a record of the store returns, and leaves   *)
(* the record's primary key out of records, out of indexer.keys and out of *)
(* every posting set of every index.                                       *)
C11_DeleteRemoves ==
    last.op = "delete" =>
        /\ ~last.err
        /\ last.pkey \notin DOMAIN back.records
        /\ last.pkey \notin DOMAIN back.keys
        /\ Unposted(back, last.pkey)

----------------------------------------------------------------------------
(* Store.update with its arguments on record: the target, the fields that  *)
(* `keys or record.keys()` names and the record as the call found it       *)

UpdateWith(target, ks) ==
    \E o \in {Back_update(Cur, target, ks, {})} :
        \E out \in (IF o.err
                    THEN {Back_update(Cur, target, ks, done) :
                            done \in Orders(TRUE)}
                    ELSE {o}) :
            /\ Becomes(out.w)
            /\ last' = Last("update_with", out.err, out.pkey)
            /\ result' = [kind |-> "update",
                          keys |-> IF ks = {} THEN DOMAIN target ELSE ks,
                          old_state |-> Store_get(back, target[pkey_name])]

UpdateNext ==
    /\ ops < MaxUpdateOps
    /\ ops' = ops + 1
    /\ \/ StoreCall
       \/ \E target \in Keyed(ColumnDicts, PKeys \cup DOMAIN back.records),
             ks \in KeySets : UpdateWith(target, ks)

SpecUpdate == Init /\ [][UpdateNext]_vars

(* pkey is in the posting set of index f at the coerced value of field f   *)
(* of record                                                               *)
PostedAt(st, pkey, f, record) ==
    /\ f \in DOMAIN st.indices
    /\ LET value == get_hashable(Get(record, f, None))
       IN  /\ value \in DOMAIN st.indices[f]
           /\ pkey \in st.indices[f][value]

(* C12: after a Store.update that returns, for every field k it names the  *)
(* index of k holds the record's primary key at the new coerced value of k *)
(* and, when the old coerced value differs, not at the old one.            *)
C12_UpdateReindexes ==
    (result.kind = "update" /\ ~last.err) =>
        \A k \in result.keys :
            /\ PostedAt(back, last.pkey, k, back.records[last.pkey])
            /\ get_hashable(Get(result.old_state, k, None))
                   # get_hashable(Get(back.records[last.pkey], k, None))
               => ~PostedAt(back, last.pkey, k, result.old_state)

----------------------------------------------------------------------------
(* The identity map: calls on one Store by a caller who keeps some of the  *)
(* handles (StateDicts) the calls return.  A StateDict is known by the     *)
(* call that built it and the primary key it was built for.                *)

(* the StateDict that state_dict_factory builds for pkey in this call *)
state_dict_factory(pkey) == [call |-> ops, pkey |-> pkey]

(* self.identity.get(pkey), or the StateDict built when it returns None *)
Identity_get(pkey) ==
    IF pkey \in DOMAIN identity THEN identity[pkey]
    ELSE state_dict_factory(pkey)

(* the handles of hs that were built for pkey *)
HeldFor(hs, pkey) == {h \in hs : h.pkey = pkey}

(* a call that leaves the world w and the identity map idn and returns the *)
(* handles of returned, of which the caller keeps any                      *)
Returns(w, op, err, returned, idn) ==
    /\ Goes(w)
    /\ UNCHANGED <<replay, inflight, scope>>
    /\ identity' = idn
    /\ \E kept \in SUBSET {returned[pkey] : pkey \in DOMAIN returned} :
          held' = held \cup kept
    /\ last' = Last(op, err, None)
    /\ result' = [kind |-> "handles", returned |-> returned, had |-> held]

(* Store.create: create_many builds a StateDict and stores it in identity *)
IdentityCreate(target) ==
    \E o \in {Back_create(Cur, target)} :
        Returns(o.w, "create", o.err,
                Put(NoHandles, o.pkey, state_dict_factory(o.pkey)),
                Put(identity, o.pkey, state_dict_factory(o.pkey)))

(* Store.get: get_many([pkey]) returns the StateDict of identity, or       *)
(* builds one and stores it in identity                                    *)
IdentityGet(pkey) ==
    IF pkey \in DOMAIN back.records
    THEN Returns(Cur, "get", FALSE, Put(NoHandles, pkey, Identity_get(pkey)),
                 Put(identity, pkey, Identity_get(pkey)))
    ELSE Returns(Cur, "get", FALSE, NoHandles, identity)

(* Store.get_many() and a query with no where-clause and no selection: the *)
(* StateDict of identity, or one that is built and not stored in identity  *)
IdentityGetAll ==
    Returns(Cur, "get_many", FALSE,
            [pkey \in DOMAIN back.records |-> Identity_get(pkey)], identity)

(* Store.update: the StateDict of identity, or one that is built and       *)
(* stored in identity                                                      *)
IdentityUpdate(target) ==
    \E o \in {Back_update(Cur, target, {}, {})} :
        IF o.err THEN Returns(o.w, "update", TRUE, NoHandles, identity)
        ELSE Returns(o.w, "update", FALSE,
                     Put(NoHandles, o.pkey, Identity_get(o.pkey)),
                     Put(identity, o.pkey, Identity_get(o.pkey)))

(* the caller drops a handle *)
Drop(h) ==
    /\ Becomes(Cur)
    /\ UNCHANGED <<identity, inflight, scope>>
    /\ held' = held \ {h}
    /\ last' = Last("drop", FALSE, None)
    /\ result' = NoResult

(* the runtime reclaims the StateDicts that nobody holds, and with them    *)
(* their entries of the WeakValueDictionary                                *)
Reclaim ==
    /\ \E pkey \in DOMAIN identity : identity[pkey] \notin held
    /\ Becomes(Cur)
    /\ UNCHANGED <<held, inflight, scope>>
    /\ identity' = [pkey \in {x \in DOMAIN identity : identity[x] \in held}
                      |-> identity[pkey]]
    /\ last' = Last("reclaim", FALSE, None)
    /\ result' = NoResult

IdentityNext ==
    /\ ops < MaxIdentityOps
    /\ ops' = ops + 1
    /\ \/ \E target \in TxDicts \cup Keyed(TxDicts, PKeys) :
            IdentityCreate(target)
       \/ \E pkey \in PKeys \cup DOMAIN back.records : IdentityGet(pkey)
       \/ IdentityGetAll
       \/ \E target \in Keyed(TxDicts, PKeys \cup DOMAIN back.records) :
            IdentityUpdate(target)
       \/ \E h \in held : Drop(h)
       \/ Reclaim

SpecIdentity == Init /\ [][IdentityNext]_vars

(* C13 (I5): while the caller holds a handle for a primary key, every call *)
(* that returns a handle for that key (get, get_many with or without       *)
(* targets, a query without selection, create, update) returns a handle    *)
(* the caller already held.                                                *)
C13_IdentityMap ==
    result.kind = "handles" =>
        \A pkey \in DOMAIN result.returned :
            HeldFor(result.had, pkey) # {} =>
                result.returned[pkey] \in HeldFor(result.had, pkey)

----------------------------------------------------------------------------
(* Copies: Store.create by a caller who keeps the dict it passed and       *)
(* writes to it afterwards.  An object is known by a reference; a write to *)
(* an object is seen through every reference to it.                        *)

(* the dict the caller passes to create *)
InputRef == <<"input">>

(* copy.deepcopy that returns its argument *)
deepcopy_SameObject(ref) == ref

(* copy.deepcopy: an object that nothing else refers to *)
deepcopy(ref) == <<"copy">> \o ref

(* Store.create_many: `record = target` for a dict, the primary key is     *)
(* written into it, and records[pkey] is deepcopy(record)                  *)
CopyCreate(target) ==
    \E o \in {Back_create(Cur, target)} :
        /\ Becomes(o.w)
        /\ last' = Last("create", o.err, o.pkey)
        /\ result' = [kind |-> "created", pkey |-> o.pkey,
                      input |-> Put(target, pkey_name, o.pkey),
                      stored |-> deepcopy(InputRef)]

(* the caller writes input[f] = v; the write reaches records[pkey] when    *)
(* that is the same object                                                 *)
MutateInput(f, v) ==
    /\ result.kind = "created"
    /\ \E input \in {Put(result.input, f, v)} :
          /\ result' = [result EXCEPT !.input = input]
          /\ IF result.stored = InputRef /\ result.pkey \in DOMAIN back.records
             THEN Becomes([Cur EXCEPT !.back.records =
                                          Put(@, result.pkey, input)])
             ELSE Becomes(Cur)
    /\ last' = Last("mutate_input", FALSE, result.pkey)

CopyNext ==
    /\ ops < MaxCopyOps
    /\ ops' = ops + 1
    /\ \/ \E target \in ColumnDicts \cup Keyed(ColumnDicts, PKeys) :
            CopyCreate(target)
       \/ \E f \in Columns : \E v \in ValuesOf(f) : MutateInput(f, v)

SpecCopy == Init /\ [][CopyNext]_vars

(* C14: after a create, get of the created key is equal to the created     *)
(* record and the stored record is another object than the caller's input; *)
(* a later write to the caller's input changes neither the records nor the *)
(* indices of the store.                                                   *)
C14_CreateCopies ==
    [][/\ (last'.op = "create" /\ ~last'.err) =>
            /\ Store_get(back', result'.pkey) = result'.input
            /\ result'.stored # InputRef
       /\ last'.op = "mutate_input" => back' = back]_vars

(* the caller has changed a column of the dict it passed to create, and    *)
(* the stored record keeps the value it was created with                   *)
C14_Witness ==
    /\ last.op = "mutate_input"
    /\ last.pkey \in DOMAIN back.records
    /\ \E f \in Columns :
          /\ f \in DOMAIN back.records[last.pkey]
          /\ f \in DOMAIN result.input
          /\ back.records[last.pkey][f] # result.input[f]

----------------------------------------------------------------------------
(* Two threads on one Store.  Store.update reads records[pkey] and copies  *)
(* it as old_state before `with self.lock:`; what it does under the lock   *)
(* it does to the dict it read.  The calls of the other thread run as a    *)
(* whole, one of them at most between the two parts of the update.         *)

(* the calls of the other thread *)
LockCalls ==
    {[op |-> "create", target |-> t] : t \in Keyed(TxDicts, PKeys)}
    \cup {[op |-> "update", target |-> t, keys |-> ks] :
            t \in Keyed(TxDicts, PKeys), ks \in {{}, {"a"}}}
    \cup {[op |-> "delete", pkey |-> p, keys |-> ks] :
            p \in PKeys, ks \in {{}, {"a"}}}
    \cup {[op |-> "clear"]}

(* a call on the store st *)
ApplyCall(st, c, done) ==
    CASE c.op = "create" ->
            Ret(Store_create(st, c.target, None).s, FALSE)
      [] c.op = "update" -> Store_update(st, c.target, c.keys, done)
      [] c.op = "delete" -> Store_delete(st, c.pkey, c.keys, done)
      [] c.op = "clear" -> Ret(Store_clear(st), FALSE)

(* does the call put another dict, or none, in records[pkey]: create_many  *)
(* stores a new dict, a full delete pops the dict and clear drops them     *)
(* all, while update and a partial delete write to the dict that is there  *)
Replaces(c, pkey) ==
    \/ c.op = "clear"
    \/ c.op = "create" /\ c.target[pkey_name] = pkey
    \/ c.op = "delete" /\ c.pkey = pkey /\ c.keys = {}

(* the part of Store.update under the lock: existing is existing_record,   *)
(* the dict read before the lock, which is records[pkey] still when stored *)
Store_update_locked(st, existing, stored, old_state, target, karg, done) ==
    LET pkey == target[pkey_name]
        ks == IF karg # {} THEN karg ELSE DOMAIN target
        record == Merge(existing, target)
        r == Indexer_update(IndexerOf(st), old_state, record, ks, done)
        records1 == IF stored THEN Put(st.records, pkey, record)
                    ELSE st.records
    IN  Ret(WithIndexer(records1, r.s), r.err)

(* the stores that the update, made as a whole before or after the calls   *)
(* of the other thread, can leave                                          *)
RECURSIVE ApplyCalls(_, _, _)
ApplyCalls(st, calls, done) ==
    IF calls = <<>> THEN st
    ELSE ApplyCalls(ApplyCall(st, Head(calls), done).s, Tail(calls), done)

Serial(pre, calls, target, ks) ==
    {ApplyCalls(Store_update(pre, target, ks, d1).s, calls, d2) :
        d1 \in Orders(TRUE), d2 \in Orders(TRUE)}
    \cup {Store_update(ApplyCalls(pre, calls, d1), target, ks, d2).s :
            d1 \in Orders(TRUE), d2 \in Orders(TRUE)}

(* a call of the only thread that is in a call, or of the other thread     *)
(* while the update waits for the lock                                     *)
LockCall(c) ==
    /\ inflight.active => inflight.calls = <<>>
    /\ \E done \in Orders(TRUE) :
          \E r \in {ApplyCall(back, c, done)} :
              /\ done = {} \/ r.err
              /\ Goes([Cur EXCEPT !.back = r.s])
              /\ last' = Last(c.op, r.err, None)
    /\ inflight' = IF inflight.active
                   THEN [inflight EXCEPT
                            !.calls = <<c>>,
                            !.stored = @ /\ ~Replaces(c, inflight.target[pkey_name])]
                   ELSE inflight
    /\ result' = NoResult
    /\ UNCHANGED <<replay, identity, held, scope>>

(* Store.update up to `with self.lock:` *)
UpdateBegin(target, ks) ==
    /\ ~inflight.active
    /\ target[pkey_name] \in DOMAIN back.records
    /\ inflight' = [active |-> TRUE, target |-> target, keys |-> ks,
                    old_state |-> back.records[target[pkey_name]],
                    stored |-> TRUE, pre |-> back, calls |-> <<>>]
    /\ Goes(Cur)
    /\ last' = Last("update_begin", FALSE, target[pkey_name])
    /\ result' = NoResult
    /\ UNCHANGED <<replay, identity, held, scope>>

(* Store.update from `with self.lock:` to its return *)
UpdateEnd ==
    /\ inflight.active
    /\ \E done \in Orders(TRUE) :
          \E r \in {Store_update_locked(
                        back,
                        IF inflight.stored
                        THEN back.records[inflight.target[pkey_name]]
                        ELSE inflight.old_state,
                        inflight.stored, inflight.old_state, inflight.target,
                        inflight.keys, done)} :
              /\ done = {} \/ r.err
              /\ Goes([Cur EXCEPT !.back = r.s])
              /\ last' = Last("update_end", r.err, inflight.target[pkey_name])
    /\ result' = [kind |-> "interleaved",
                  calls |-> inflight.calls,
                  serial |-> Serial(inflight.pre, inflight.calls,
                                    inflight.target, inflight.keys)]
    /\ inflight' = NoCall
    /\ UNCHANGED <<replay, identity, held, scope>>

LockNext ==
    /\ ops < MaxLockOps
    /\ ops' = ops + 1
    /\ \/ \E c \in LockCalls : LockCall(c)
       \/ \E target \in Keyed(TxDicts, PKeys), ks \in {{}, {"a"}} :
            UpdateBegin(target, ks)
       \/ UpdateEnd

SpecLock == Init /\ [][LockNext]_vars

(* C15: the mutating calls hold the lock from their first read to their    *)
(* last write, so that the records and indices that interleaved calls      *)
(* leave are those that the same calls leave in some serial order; here,   *)
(* for an update and the calls of another thread.                          *)
C15_Serializable ==
    result.kind = "interleaved" => back \in result.serial

----------------------------------------------------------------------------
(* The with-block: `with store.transaction() as trans:` and a body of      *)
(* calls on trans, left by its end or by an exception                      *)

(* Transaction.__exit__ that commits however the block is left *)
Transaction_exit_AlwaysCommit(w, exc, dorder, corder, uorder, done) ==
    [o |-> Transaction_commit(w, dorder, corder, uorder, done),
     ran |-> <<"commit">>, suppress |-> TRUE]

(* Transaction.__exit__: the outcome of the call it makes, the calls it    *)
(* made and the value it returns (False lets the exception go on)          *)
Transaction_exit(w, exc, dorder, corder, uorder, done) ==
    IF exc
    THEN [o |-> Transaction_rollback(w), ran |-> <<"rollback">>,
          suppress |-> FALSE]
    ELSE [o |-> Transaction_commit(w, dorder, corder, uorder, done),
          ran |-> <<"commit">>, suppress |-> TRUE]

(* store.transaction() and __enter__: a new transaction, with an empty     *)
(* front store and an empty journal                                        *)
Enter ==
    /\ ~scope.open
    /\ Goes(Transaction_clear(Cur))
    /\ scope' = [open |-> TRUE, entry |-> back]
    /\ last' = Last("enter", FALSE, None)
    /\ result' = NoResult
    /\ UNCHANGED <<replay, identity, held, inflight>>

(* the calls of the body *)
Body ==
    /\ scope.open
    /\ \/ \E target \in TxDicts \cup Keyed(TxDicts, PKeys) : TxCreate(target)
       \/ \E target \in Keyed(TxDicts, KnownPKeys), ks \in TxKeySets :
            TxUpdate(target, ks)
       \/ \E pkey \in KnownPKeys, ks \in TxKeySets : TxDelete(pkey, ks)
       \/ \E pkey \in KnownPKeys : TxGet(pkey)
       \/ \E predicate \in TxPredicates : TxSelect(predicate)

(* the block is left, by an exception when exc *)
Exit(exc) ==
    /\ scope.open
    /\ \E dorder \in Perms(deleted_pkeys),
          corder \in Perms(created_pkeys \ deleted_pkeys),
          uorder \in Perms(updated_pkeys \ deleted_pkeys),
          done \in Orders(TRUE) :
          \E x \in {Transaction_exit(Cur, exc, dorder, corder, uorder, done)} :
              /\ done = {} \/ x.o.err
              /\ Goes(x.o.w)
              /\ last' = [Last("exit", x.o.err, None)
                             EXCEPT !.journal = Journal]
              /\ result' = [kind |-> "exit", exc |-> exc, ran |-> x.ran,
                            reraised |-> exc /\ ~x.suppress]
    /\ scope' = [scope EXCEPT !.open = FALSE]
    /\ UNCHANGED <<replay, identity, held, inflight>>

ScopeNext ==
    /\ ops < MaxScopeOps
    /\ ops' = ops + 1
    /\ \/ Enter
       \/ Body
       \/ Exit(FALSE)
       \/ Exit(TRUE)

SpecScope == TxInit /\ [][ScopeNext]_vars

----------------------------------------------------------------------------
(* Claims about the commit *)

(* the keys created and then deleted in the transaction: they are in both  *)
(* sets and the front store has no record of them                          *)
CreatedThenDeleted ==
    (created_pkeys \cap deleted_pkeys) \ DOMAIN front.records

(* C17: a commit that returns replays the deletes, then the creates of the *)
(* keys not deleted, then the updates of the keys not deleted: it leaves   *)
(* the back store as it was for a key created and then deleted in the      *)
(* transaction, and it leaves no record in the back store for a key of     *)
(* deleted_pkeys.                                                          *)
C17_CommitOrder ==
    [][(last'.op = "commit" /\ ~last'.err) =>
          /\ \A pkey \in CreatedThenDeleted :
                Store_get(back', pkey) = Store_get(back, pkey)
          /\ \A pkey \in deleted_pkeys :
                pkey \notin DOMAIN back'.records]_vars

----------------------------------------------------------------------------
(* A transaction made with a callback: store.transaction(callback)         *)

(* the dict {k: self.front.records[k] for k in pkeys} of commit; building  *)
(* it raises KeyError when the front store has no record of a key          *)
FrontRecords(w, pkeys) ==
    [raises |-> ~(pkeys \subseteq DOMAIN w.front.records),
     dict |-> [k \in pkeys \cap DOMAIN w.front.records |->
                  w.front.records[k]]]

(* Transaction.commit with a callback, after the replay has returned o:    *)
(* the arguments of the callback, the call of the callback and             *)
(* self.clear(); calls counts the calls of the callback                    *)
Transaction_commit_callback(o) ==
    IF o.err
    THEN [o |-> o, replayed |-> FALSE, calls |-> 0, args |-> <<>>]
    ELSE IF \/ FrontRecords(o.w, o.w.created).raises
            \/ FrontRecords(o.w, o.w.updated).raises
    THEN [o |-> Out(o.w, TRUE, None), replayed |-> TRUE, calls |-> 0,
          args |-> <<>>]
    ELSE [o |-> CommitClear(o), replayed |-> TRUE, calls |-> 1,
          args |-> <<FrontRecords(o.w, o.w.created).dict,
                     FrontRecords(o.w, o.w.updated).dict, o.w.deleted>>]

(* the calls commit makes on the back store: the deletes, then the         *)
(* creates, then the updates                                               *)
CommitReplay(w, dorder, corder, uorder, done) ==
    Replay(Out(w, FALSE, None),
           Calls("delete", dorder) \o Calls("create", corder)
               \o Calls("update", uorder),
           done)

CommitCallback(dorder, corder, uorder) ==
    \E r \in {CommitReplay(Cur, dorder, corder, uorder, {})} :
        \E o \in (IF r.err
                  THEN {CommitReplay(Cur, dorder, corder, uorder, done) :
                            done \in Orders(TRUE)}
                  ELSE {r}) :
            \E x \in {Transaction_commit_callback(o)} :
                /\ Becomes(x.o.w)
                /\ last' = [Last("commit_callback", x.o.err, None)
                               EXCEPT !.journal = Journal]
                /\ result' = [kind |-> "callback", replayed |-> x.replayed,
                              calls |-> x.calls, args |-> x.args]

CallbackNext ==
    /\ ops < MaxCallbackOps
    /\ ops' = ops + 1
    /\ \/ Journaling
       \/ \E dorder \in Perms(deleted_pkeys),
             corder \in Perms(created_pkeys \ deleted_pkeys),
             uorder \in Perms(updated_pkeys \ deleted_pkeys) :
               CommitCallback(dorder, corder, uorder)
       \/ Rollback

SpecCallback == TxInit /\ [][CallbackNext]_vars

(* C18: a commit with a callback whose calls on the back store have all    *)
(* returned calls the callback once and then clears the journal and the    *)
(* front store, whatever the journal.                                      *)
C18_CallbackOnce ==
    (result.kind = "callback" /\ result.replayed) =>
        /\ result.calls = 1
        /\ ~last.err
        /\ created_pkeys = {} /\ updated_pkeys = {} /\ deleted_pkeys = {}
        /\ front = NewStore

----------------------------------------------------------------------------
(* Claims about the reads of a transaction *)

(* the primary keys the transaction has deleted and not created again *)
FullyDeleted == deleted_pkeys \ DOMAIN front.records

(* C19: a record deleted through a transaction cannot be read through it   *)
(* before the commit or the rollback: after the delete its primary key is  *)
(* in deleted_pkeys and not in the front store, Transaction.get returns    *)
(* None for it and the result of a Transaction.select query does not       *)
(* contain it.                                                             *)
C19_DeletedInvisible ==
    /\ (last.op = "tx_delete" /\ ~last.err) =>
           last.pkey \in FullyDeleted
    /\ (last.op = "tx_get" /\ last.pkey \in deleted_pkeys) =>
           result.record = NoRecord
    /\ last.op = "tx_select" =>
           \A pkey \in FullyDeleted : pkey \notin DOMAIN result.records


(* C20: Transaction.delete(target, keys) of a record of the back store     *)
(* that the transaction has not deleted returns, leaves a copy of the      *)
(* record in the front store and journals the record for the commit.       *)
C20_PartialDelete ==
    (/\ last.op = "tx_delete_keys"
     /\ last.pkey \in DOMAIN back.records
     /\ last.pkey \notin deleted_pkeys) =>
        /\ ~last.err
        /\ last.pkey \in DOMAIN front.records
        /\ last.pkey \in updated_pkeys

----------------------------------------------------------------------------
(* Transaction.delete_many *)

(* Transaction.delete_many(targets, keys): the call it makes is            *)
(* front.delete_many(targets, transaction=self), without the keys, and     *)
(* Store.delete_many without keys calls self.delete(pkey, transaction) on  *)
(* each target in turn; targets is the sequence of the primary keys        *)
RECURSIVE Transaction_delete_many(_, _, _, _)
Transaction_delete_many(w, targets, ks, done) ==
    IF targets = <<>> THEN Out(w, FALSE, None)
    ELSE CHOOSE r \in
             {IF o.err THEN o
              ELSE Transaction_delete_many(o.w, Tail(targets), ks, done) :
                 o \in {Transaction_delete(w, Head(targets), {}, done)}} :
             TRUE

TxDeleteMany(targets, ks) ==
    \E o \in {Transaction_delete_many(Cur, targets, ks, {})} :
        \E out \in (IF o.err
                    THEN {Transaction_delete_many(Cur, targets, ks, done) :
                            done \in Orders(TRUE)}
                    ELSE {o}) :
            /\ Becomes(out.w)
            /\ last' = Last(IF ks = {} THEN "tx_delete_many"
                            ELSE "tx_delete_many_keys", out.err, None)
            /\ result' = [kind |-> "delete_many", targets |-> targets,
                          deleted |-> deleted_pkeys,
                          records |-> DOMAIN front.records]

DeleteManyNext ==
    /\ ops < MaxDeleteManyOps
    /\ ops' = ops + 1
    /\ \/ Journaling
       \/ \E pkey \in KnownPKeys : TxGet(pkey)
       \/ \E pkeys \in SUBSET KnownPKeys, ks \in TxKeySets :
             \E targets \in Perms(pkeys) : TxDeleteMany(targets, ks)
       \/ \E dorder \in Perms(deleted_pkeys),
             corder \in Perms(created_pkeys \ deleted_pkeys),
             uorder \in Perms(updated_pkeys \ deleted_pkeys) :
               Commit(dorder, corder, uorder)

SpecDeleteMany == TxInit /\ [][DeleteManyNext]_vars

(* C21: Transaction.delete_many(targets, keys) with a non-empty keys does  *)
(* not delete the target records: it returns, no target is added to        *)
(* deleted_pkeys and the targets that were in the front store stay there.  *)
C21_DeleteManyKeys ==
    last.op = "tx_delete_many_keys" =>
        /\ ~last.err
        /\ deleted_pkeys = result.deleted
        /\ result.records \subseteq DOMAIN front.records

----------------------------------------------------------------------------
(* Predicate.evaluate on the store alone *)

PointOps == {"EQ", "NE", "IN", "NOT_IN"}

(* the comparisons of a column with coerced values: the point operators on *)
(* every column, with collections of one and of two values, and the        *)
(* inequalities on column "a", whose values have an order                  *)
PointPredicates ==
    (Predicates \ {NoPredicate})
    \cup {ConditionalExpression(op, "a",
                                {get_hashable(v) : v \in ValuesOf("a")}) :
             op \in {"IN", "NOT_IN"}}

RangePredicates ==
    {ConditionalExpression(op, "a", {get_hashable(v)}) :
        op \in RangeOps, v \in ValuesOf("a")}

(* the operands of p & q and p | q *)
Operands ==
    {ConditionalExpression(op, "a", {get_hashable(v)}) :
        op \in {"EQ", "NE", "GT", "LE"}, v \in ValuesOf("a")}
    \cup {ConditionalExpression("EQ", pkey_name, {p}) : p \in PKeys}

BooleanPredicates ==
    {BooleanExpression(op, lhs, rhs) :
        op \in {"AND", "OR"}, lhs \in Operands, rhs \in Operands}

(* Predicate.evaluate(store, predicate) *)
Evaluate(predicate) ==
    \E raises \in {Predicate_raises(back, predicate)} :
        /\ Becomes(Cur)
        /\ last' = Last("evaluate", raises, None)
        /\ result' = [kind |-> "pkeys", predicate |-> predicate,
                      pkeys |-> IF raises THEN {}
                                ELSE Predicate_evaluate(back, predicate)]

(* the keys of indices[f] at which pkey is posted, and the primary keys    *)
(* posted in indices[f]                                                    *)
IndexedAt(st, f, pkey) ==
    {v \in DOMAIN Get(st.indices, f, EmptyDict) : pkey \in st.indices[f][v]}

PostedIn(st, f) ==
    UNION {st.indices[f][v] : v \in DOMAIN Get(st.indices, f, EmptyDict)}

(* the primary keys of the point operator of p, read off the postings *)
PointMatches(st, p) ==
    {pkey \in PostedIn(st, p.key) :
        CASE p.op_code = "EQ" -> Operand(p) \in IndexedAt(st, p.key, pkey)
          [] p.op_code = "NE" -> IndexedAt(st, p.key, pkey) \ {Operand(p)} # {}
          [] p.op_code = "IN" -> IndexedAt(st, p.key, pkey) \cap p.value # {}
          [] p.op_code = "NOT_IN" -> IndexedAt(st, p.key, pkey) \ p.value # {}}

(* the evaluation of f == r[f] finds r, for every field f of every record  *)
(* r of the store                                                          *)
FindsItsRecords(st) ==
    \A pkey \in DOMAIN st.records : \A f \in DOMAIN st.records[pkey] :
        pkey \in Predicate_evaluate(st,
                     ConditionalExpression("EQ", f,
                         {get_hashable(st.records[pkey][f])}))

(* C22: EQ, NE, IN and NOT_IN return exactly the primary keys posted at a  *)
(* key of the index that equals, differs from, is in or is not in the      *)
(* right-hand side, and f == r[f] finds r for every field of every record. *)
C22_PointOperators ==
    /\ (/\ last.op = "evaluate"
        /\ result.predicate.kind = "cond"
        /\ result.predicate.op_code \in PointOps) =>
           /\ ~last.err
           /\ result.pkeys = PointMatches(back, result.predicate)
    /\ FindsItsRecords(back)


(* the keys of index below, above, and at or above the value v, in the     *)
(* order of the index                                                      *)
KeysBelow(index, v) == {k \in DOMAIN index : KeyRank(k) < KeyRank(v)}

KeysAbove(index, v) == {k \in DOMAIN index : KeyRank(k) > KeyRank(v)}

(* the primary keys of the inequality p, read off the postings: those      *)
(* posted at a key other than None at the positions [0, lower_bound) for   *)
(* LT, [upper_bound, end) for GT, [lower_bound, end) for GE and            *)
(* [0, upper_bound) for LE                                                 *)
RangeMatches(st, p) ==
    LET index == Get(st.indices, p.key, EmptyDict)
        v == Operand(p)
        keys == CASE p.op_code = "LT" -> KeysBelow(index, v)
                  [] p.op_code = "GT" -> KeysAbove(index, v)
                  [] p.op_code = "GE" -> DOMAIN index \ KeysBelow(index, v)
                  [] p.op_code = "LE" -> DOMAIN index \ KeysAbove(index, v)
    IN  UNION {index[k] : k \in keys \ {None}}

(* for records r1 and r2 with r1[f] < r2[f], f < r2[f] finds r1 and not r2 *)
OrdersItsRecords(st, f) ==
    \A p1, p2 \in DOMAIN st.records :
        (/\ f \in DOMAIN st.records[p1] /\ f \in DOMAIN st.records[p2]
         /\ st.records[p1][f] # None /\ st.records[p2][f] # None
         /\ KeyRank(st.records[p1][f]) < KeyRank(st.records[p2][f])) =>
            \E p \in {ConditionalExpression("LT", f, {st.records[p2][f]})} :
                /\ ~Predicate_raises(st, p)
                /\ p1 \in Predicate_evaluate(st, p)
                /\ p2 \notin Predicate_evaluate(st, p)

(* C23: in every state of the store, LT, GT and GE return the primary keys *)
(* posted at the keys of the index below, above, and at or above the       *)
(* value, and f < r2[f] finds r1 and not r2 when r1[f] < r2[f].            *)
C23_RangeOperators ==
    /\ (/\ last.op = "evaluate"
        /\ result.predicate.kind = "cond"
        /\ result.predicate.op_code \in {"LT", "GT", "GE"}) =>
           /\ ~last.err
           /\ result.pkeys = RangeMatches(back, result.predicate)
    /\ OrdersItsRecords(back, "a")


(* C24: a predicate with the operator LE returns the primary keys posted   *)
(* at the keys of the index at or below the value.                         *)
C24_RangeLE ==
    (/\ last.op = "evaluate"
     /\ result.predicate.kind = "cond"
     /\ result.predicate.op_code = "LE") =>
        /\ ~last.err
        /\ result.pkeys = RangeMatches(back, result.predicate)


(* reduce(lambda x, y: x & y, predicates) *)
RECURSIVE AndAll(_)
AndAll(predicates) ==
    IF Len(predicates) = 1 THEN predicates[1]
    ELSE BooleanExpression("AND",
                           AndAll(SubSeq(predicates, 1, Len(predicates) - 1)),
                           predicates[Len(predicates)])

(* Query.where that replaces the predicate of the query *)
Query_where_Replace(current, predicates) == AndAll(predicates)

(* Query.where with the arguments predicates, on a query whose predicate   *)
(* is current                                                              *)
Query_where(current, predicates) ==
    IF current.kind = "none" THEN AndAll(predicates)
    ELSE BooleanExpression("AND", current, AndAll(predicates))

(* the predicates given to where(): one or two of them in a call *)
WhereOperands ==
    {ConditionalExpression("NE", "a", {IntV(2)}),
     ConditionalExpression("GT", "a", {IntV(1)}),
     ConditionalExpression("LE", "a", {IntV(1)})}
    \cup {ConditionalExpression("EQ", pkey_name, {p}) : p \in PKeys}

WhereArgs == UNION {[1..n -> WhereOperands] : n \in 1..2}

(* Query.where with the arguments first, a second call with the arguments  *)
(* second unless second is empty, and the evaluation of the predicate of   *)
(* the query                                                               *)
Where(first, second) ==
    \E predicate \in {IF second = <<>> THEN Query_where(NoPredicate, first)
                      ELSE Query_where(Query_where(NoPredicate, first),
                                       second)} :
        \E raises \in {Predicate_raises(back, predicate)} :
            /\ Becomes(Cur)
            /\ last' = Last("where", raises, None)
            /\ result' = [kind |-> "pkeys", predicate |-> predicate,
                          parts |-> first \o second,
                          pkeys |-> IF raises THEN {}
                                    ELSE Predicate_evaluate(back, predicate)]

PredicateNext ==
    /\ ops < MaxPredicateOps
    /\ ops' = ops + 1
    /\ \/ StoreCall
       \/ \E predicate \in PointPredicates \cup RangePredicates
                              \cup BooleanPredicates : Evaluate(predicate)
       \/ \E first \in WhereArgs, second \in {<<>>} \cup WhereArgs :
             Len(second) <= 1 /\ Where(first, second)

SpecPredicate == Init /\ [][PredicateNext]_vars

(* the evaluation of every predicate of parts returns *)
AllReturn(st, parts) ==
    \A i \in 1..Len(parts) : ~Predicate_raises(st, parts[i])

(* the primary keys that every predicate of parts returns *)
AllMatch(st, parts) ==
    {pkey \in Predicate_evaluate(st, parts[1]) :
        \A i \in 1..Len(parts) : pkey \in Predicate_evaluate(st, parts[i])}

(* C25: p & q returns the intersection of the results of p and q, and the  *)
(* empty set without evaluating q when the result of p is empty; p | q     *)
(* returns their union; the predicates given to one or to several calls of *)
(* Query.where are AND-ed.                                                 *)
C25_BooleanComposition ==
    /\ (last.op = "evaluate" /\ result.predicate.kind = "bool"
        /\ ~Predicate_raises(back, result.predicate.lhs)) =>
           IF result.predicate.op_code = "AND"
           THEN IF Predicate_evaluate(back, result.predicate.lhs) = {}
                THEN ~last.err /\ result.pkeys = {}
                ELSE ~Predicate_raises(back, result.predicate.rhs) =>
                        /\ ~last.err
                        /\ result.pkeys =
                             Predicate_evaluate(back, result.predicate.lhs)
                             \cap Predicate_evaluate(back,
                                                     result.predicate.rhs)
           ELSE ~Predicate_raises(back, result.predicate.rhs) =>
                   /\ ~last.err
                   /\ result.pkeys =
                        Predicate_evaluate(back, result.predicate.lhs)
                        \cup Predicate_evaluate(back, result.predicate.rhs)
    /\ (last.op = "where" /\ AllReturn(back, result.parts)) =>
           /\ ~last.err
           /\ result.pkeys = AllMatch(back, result.parts)

(* two calls of where, the first with two predicates, whose predicates     *)
(* match different records                                                 *)
C25_Witness ==
    /\ last.op = "where"
    /\ Len(result.parts) = 3
    /\ AllReturn(back, result.parts)
    /\ result.pkeys # {}
    /\ result.pkeys # Predicate_evaluate(back, result.parts[1])
    /\ result.pkeys # Predicate_evaluate(back, result.parts[3])

----------------------------------------------------------------------------
(* Query: selection, ordering and pagination *)

(* limit_index and offset_index of a query on which limit() and offset()   *)
(* were not called                                                         *)
Unset == 0 - 1

(* Query.__init__ *)
NewQuery ==
    [selected |-> {}, predicate |-> NoPredicate, orderings |-> <<>>,
     limit_index |-> Unset, offset_index |-> Unset]

(* Query.limit that stores its argument *)
Query_limit_AsGiven(q, n) == [q EXCEPT !.limit_index = n]

(* Query.limit *)
Query_limit(q, n) == [q EXCEPT !.limit_index = IF n < 1 THEN 1 ELSE n]

(* Query.offset *)
Query_offset(q, n) == [q EXCEPT !.offset_index = IF n < 0 THEN 0 ELSE n]

(* Ordering(attr, desc) *)
Ordering(key, desc) == [key |-> key, desc |-> desc]

(* project() of Query.execute that returns the record *)
project_Full(record, selected) == record

(* project() of Query.execute and StateDict.projection *)
project(record, selected) ==
    IF selected = {} THEN record
    ELSE [k \in DOMAIN record \cap (selected \cup {pkey_name}) |-> record[k]]

(* sorted(records, key=lambda x: x[key], reverse=reverse) raises: KeyError *)
(* for a record without the field, TypeError for a comparison with None    *)
SortRaises(records, ordering) ==
    \/ \E i \in 1..Len(records) : ordering.key \notin DOMAIN records[i]
    \/ /\ Len(records) >= 2
       /\ \E i \in 1..Len(records) : records[i][ordering.key] = None

(* record x comes before record y in the order of ordering *)
Before(x, y, ordering) ==
    IF ordering.desc
    THEN KeyRank(x[ordering.key]) > KeyRank(y[ordering.key])
    ELSE KeyRank(x[ordering.key]) < KeyRank(y[ordering.key])

(* Ordering.sort with one ordering: the sort is stable, also with reverse  *)
Ordering_sort(records, ordering) ==
    LET n == Len(records)
        order == CHOOSE p \in Perms(1..n) :
                     \A i, j \in 1..n :
                         i < j =>
                            \/ Before(records[p[i]], records[p[j]], ordering)
                            \/ /\ ~Before(records[p[j]], records[p[i]],
                                          ordering)
                               /\ p[i] < p[j]
    IN  [i \in 1..n |-> records[order[i]]]

(* Ordering.sort with several orderings builds, record by record, the     *)
(* tuple of the values of the record, None and a missing field as 0, and   *)
(* keeps it in indexes[record].  A descending ordering takes the inverse   *)
(* of a str and the negative of a value that has a converter (bytes,       *)
(* datetime, timedelta, date, dict, set, tuple), and raises NotOrderable   *)
(* for any other value, an int among them                                  *)
IndexValue(record, ordering) ==
    IF Get(record, ordering.key, None) = None THEN IntV(0)
    ELSE record[ordering.key]

NotOrderableAt(record, orderings) ==
    \E i \in 1..Len(orderings) :
        /\ orderings[i].desc
        /\ IndexValue(record, orderings[i])[1] \notin {"str", "hex", "set",
                                                       "tuple"}

(* indexes[record] = tuple(index) needs hash(record): a record is a        *)
(* StateDict, a dict, which has no hash                                    *)
StateDictHashable == FALSE

SortManyRaises(records, orderings) ==
    \E i \in 1..Len(records) :
        NotOrderableAt(records[i], orderings) \/ ~StateDictHashable

(* x comes before y in the order of the tuples *)
RECURSIVE BeforeMany(_, _, _)
BeforeMany(x, y, orderings) ==
    IF orderings = <<>> THEN FALSE
    ELSE LET vx == KeyRank(IndexValue(x, Head(orderings)))
             vy == KeyRank(IndexValue(y, Head(orderings)))
         IN  IF vx = vy THEN BeforeMany(x, y, Tail(orderings))
             ELSE IF Head(orderings).desc THEN vx > vy ELSE vx < vy

(* sorted(records, key=lambda x: indexes[x]) *)
Ordering_sort_many(records, orderings) ==
    LET n == Len(records)
        order == CHOOSE p \in Perms(1..n) :
                     \A i, j \in 1..n :
                         i < j =>
                            \/ BeforeMany(records[p[i]], records[p[j]],
                                          orderings)
                            \/ /\ ~BeforeMany(records[p[j]], records[p[i]],
                                               orderings)
                               /\ p[i] < p[j]
    IN  [i \in 1..n |-> records[order[i]]]

(* records[offset:offset+limit], records[offset:] and records[:limit] *)
Paginate(records, q) ==
    LET from == IF q.offset_index = Unset THEN 0 ELSE q.offset_index
        upto == IF q.limit_index = Unset THEN Len(records)
                ELSE IF from + q.limit_index < Len(records)
                     THEN from + q.limit_index
                     ELSE Len(records)
    IN  SubSeq(records, from + 1, upto)

(* retval[pkey] = project(record): the ordered mapping as the sequence of  *)
(* its values; a primary key met again keeps its place and takes the new   *)
(* value                                                                   *)
RECURSIVE ToMapping(_, _)
ToMapping(mapping, records) ==
    IF records = <<>> THEN mapping
    ELSE LET record == Head(records)
             same == {i \in 1..Len(mapping) :
                         mapping[i][pkey_name] = record[pkey_name]}
         IN  ToMapping(IF same = {} THEN Append(mapping, record)
                       ELSE [i \in 1..Len(mapping) |->
                               IF i \in same THEN record ELSE mapping[i]],
                       Tail(records))

(* Query.execute: fetched is the order in which get_many yields the        *)
(* records (that of a set of primary keys, or of the dict of the records); *)
(* sorted and paged are the list of records after the ordering and after   *)
(* the pagination                                                          *)
Query_execute_all(st, q, first, fetched) ==
    LET records == [i \in 1..Len(fetched) |-> st.records[fetched[i]]]
        raises == /\ q.orderings # <<>>
                  /\ IF Len(q.orderings) = 1
                     THEN SortRaises(records, q.orderings[1])
                     ELSE SortManyRaises(records, q.orderings)
        sorted == IF q.orderings = <<>> \/ raises THEN records
                  ELSE IF Len(q.orderings) = 1
                  THEN Ordering_sort(records, q.orderings[1])
                  ELSE Ordering_sort_many(records, q.orderings)
        paged == Paginate(sorted, q)
        projected == [i \in 1..Len(paged) |-> project(paged[i], q.selected)]
    IN  IF records = <<>>
        THEN [err |-> FALSE, sorted |-> <<>>, paged |-> <<>>,
              returned |-> <<>>]
        ELSE IF raises \/ (first /\ paged = <<>>)
        THEN [err |-> TRUE, sorted |-> sorted, paged |-> <<>>,
              returned |-> <<>>]
        ELSE [err |-> FALSE, sorted |-> sorted, paged |-> paged,
              returned |-> IF first THEN <<projected[1]>>
                           ELSE ToMapping(<<>>, projected)]

(* store.select(selected).where(predicate).order_by(orderings)             *)
(* .limit(limit).offset(offset).execute(first): limit and offset are the   *)
(* arguments of the calls, or empty when the call is not made              *)
Select(selected, predicate, orderings, limit, offset, first) ==
    \E q0 \in {[NewQuery EXCEPT !.selected = selected,
                                !.predicate = predicate,
                                !.orderings = orderings]} :
    \E q1 \in {IF limit = <<>> THEN q0 ELSE Query_limit(q0, limit[1])} :
    \E q \in {IF offset = <<>> THEN q1 ELSE Query_offset(q1, offset[1])} :
    \E fetched \in Perms(DOMAIN Query_execute(back, predicate)) :
    \E r \in {Query_execute_all(back, q, first, fetched)} :
        /\ Becomes(Cur)
        /\ last' = Last("select", r.err, None)
        /\ result' = [kind |-> "query", query |-> q, first |-> first,
                      limit |-> limit, offset |-> offset,
                      fetched |-> fetched, sorted |-> r.sorted,
                      paged |-> r.paged, returned |-> r.returned]

(* the queries, ordered on column "a", whose values have an order, on a    *)
(* store whose records are created, updated and deleted as a whole         *)
Selections == {{}, {"a"}}

SelectPredicates ==
    {NoPredicate, ConditionalExpression("NE", "a", {IntV(2)})}

Orderings == {<<>>} \cup {<<Ordering("a", desc)>> : desc \in BOOLEAN}

Limits == {<<>>} \cup {<<n>> : n \in 0..1}

Offsets == {<<>>, <<0 - 1>>, <<1>>}

SelectNext ==
    /\ ops < MaxSelectOps
    /\ ops' = ops + 1
    /\ \/ StoreCalls(ColumnDicts, {{}})
       \/ \E selected \in Selections, predicate \in SelectPredicates,
             orderings \in Orderings, limit \in Limits, offset \in Offsets,
             first \in BOOLEAN :
               Select(selected, predicate, orderings, limit, offset, first)

SpecSelect == Init /\ [][SelectNext]_vars

(* C26: with a selection, every record that a query returns, as the single *)
(* record or in the mapping, has only fields of the selection and the      *)
(* primary-key field, with the values of the record; without a selection   *)
(* the query returns the full records.                                     *)
C26_Projection ==
    (last.op = "select" /\ ~last.err) =>
        /\ Len(result.returned) <= Len(result.paged)
        /\ \A i \in 1..Len(result.returned) :
              \E j \in 1..Len(result.paged) :
                 /\ result.first => j = 1
                 /\ IF result.query.selected = {}
                    THEN result.returned[i] = result.paged[j]
                    ELSE /\ DOMAIN result.returned[i] =
                              DOMAIN result.paged[j]
                              \cap (result.query.selected \cup {pkey_name})
                         /\ \A k \in DOMAIN result.returned[i] :
                               result.returned[i][k] = result.paged[j][k]

(* a query with a selection returned a record that has a field outside     *)
(* the selection                                                           *)
C26_Witness ==
    /\ last.op = "select" /\ ~last.err
    /\ result.query.selected = {"a"}
    /\ result.returned # <<>>
    /\ "a" \in DOMAIN result.returned[1]
    /\ "b" \in DOMAIN result.paged[1]


(* the offset and the limit of the executed query that the claim names:    *)
(* max(0, n) and max(1, n) of the arguments, no offset and no limit when   *)
(* the calls were not made                                                 *)
OffsetOf(r) ==
    IF r.offset = <<>> THEN 0 ELSE IF r.offset[1] > 0 THEN r.offset[1] ELSE 0

LimitOf(r) ==
    IF r.limit = <<>> THEN Len(r.sorted)
    ELSE IF r.limit[1] > 1 THEN r.limit[1] ELSE 1

(* the number of records of the slice [offset : offset + limit] *)
SliceLen(r) ==
    IF Len(r.sorted) - OffsetOf(r) <= 0 THEN 0
    ELSE IF Len(r.sorted) - OffsetOf(r) < LimitOf(r)
         THEN Len(r.sorted) - OffsetOf(r)
         ELSE LimitOf(r)

(* C27: limit(n) stores max(1, n) and offset(n) stores max(0, n), and a    *)
(* query returns, in their order, the records of the slice                 *)
(* [offset : offset + limit] of the ordered records, projected (in single  *)
(* mode the first of them).                                                *)
C27_Pagination ==
    last.op = "select" =>
        /\ result.limit # <<>> =>
              result.query.limit_index =
                  IF result.limit[1] > 1 THEN result.limit[1] ELSE 1
        /\ result.offset # <<>> =>
              result.query.offset_index =
                  IF result.offset[1] > 0 THEN result.offset[1] ELSE 0
        /\ ~last.err =>
              /\ Len(result.returned) =
                    IF result.first /\ SliceLen(result) > 0 THEN 1
                    ELSE SliceLen(result)
              /\ \A i \in 1..Len(result.returned) :
                    result.returned[i] =
                        project(result.sorted[OffsetOf(result) + i],
                                result.query.selected)

(* a query with an ordering, an offset and a limit returned the second of  *)
(* two records                                                             *)
C27_Witness ==
    /\ last.op = "select" /\ ~last.err /\ ~result.first
    /\ result.query.orderings # <<>>
    /\ result.limit = <<0>> /\ result.offset = <<1>>
    /\ Len(result.sorted) = 2
    /\ result.sorted # [i \in 1..2 |-> back.records[result.fetched[i]]]
    /\ result.returned = <<result.sorted[2]>>


----------------------------------------------------------------------------
(* Ordering on a store whose fields can be nulled by a partial delete *)

(* two orderings, on a column the records can have and on one they lack *)
ManyOrderings ==
    {<<Ordering("a", d1), Ordering("b", d2)>> : d1, d2 \in BOOLEAN}

OrderNext ==
    /\ ops < MaxOrderOps
    /\ ops' = ops + 1
    /\ \/ StoreCalls(TxDicts, TxKeySets)
       \/ \E orderings \in (Orderings \ {<<>>}) \cup ManyOrderings :
             Select({}, NoPredicate, orderings, <<>>, <<>>, FALSE)

SpecOrder == Init /\ [][OrderNext]_vars

(* every matched record of the executed query has the field of its one     *)
(* ordering                                                                *)
AllHaveField(r) ==
    /\ Len(r.query.orderings) = 1
    /\ \A i \in 1..Len(r.fetched) :
          r.query.orderings[1].key \in DOMAIN back.records[r.fetched[i]]

(* the records of the sequence are in the order of the ordering *)
InOrder(records, ordering) ==
    \A i, j \in 1..Len(records) :
        i < j =>
           IF ordering.desc
           THEN KeyRank(records[i][ordering.key]) >=
                   KeyRank(records[j][ordering.key])
           ELSE KeyRank(records[i][ordering.key]) <=
                   KeyRank(records[j][ordering.key])

(* C28: when one ordering is configured and every matched record has the   *)
(* field, execute returns the matched records, in ascending order of the   *)
(* field for asc and in descending order for desc, and the mapping keeps   *)
(* that order.                                                             *)
C28_SingleOrdering ==
    (last.op = "select" /\ AllHaveField(result)) =>
        /\ ~last.err
        /\ {result.returned[i] : i \in 1..Len(result.returned)} =
              {back.records[result.fetched[i]] :
                  i \in 1..Len(result.fetched)}
        /\ Len(result.returned) = Len(result.fetched)
        /\ InOrder(result.returned, result.query.orderings[1])


----------------------------------------------------------------------------
(* C29: Store.update(target, K) with an explicit field set K changes only  *)
(* the fields in K of the stored record: a field outside K has, after an   *)
(* update that returns, the value it had before, or is absent as before.   *)
C29_UpdateOnlyKeys ==
    (last.op = "update_with" /\ ~last.err) =>
        \A f \in Fields \ result.keys :
            /\ f \in DOMAIN back.records[last.pkey] <=>
                  f \in DOMAIN result.old_state
            /\ f \in DOMAIN result.old_state =>
                  back.records[last.pkey][f] = result.old_state[f]


----------------------------------------------------------------------------
(* Store.delete with its arguments on record: the fields it names and the  *)
(* record as the call found it                                             *)

DeleteWith(pkey, ks) ==
    \E o \in {Back_delete(Cur, pkey, ks, {})} :
        \E out \in (IF o.err
                    THEN {Back_delete(Cur, pkey, ks, done) :
                            done \in Orders(TRUE)}
                    ELSE {o}) :
            /\ Becomes(out.w)
            /\ last' = Last("delete_with", out.err, out.pkey)
            /\ result' = [kind |-> "delete", keys |-> ks,
                          old_state |-> Store_get(back, pkey)]

DeleteNext ==
    /\ ops < MaxDeleteOps
    /\ ops' = ops + 1
    /\ \/ StoreCall
       \/ \E pkey \in DOMAIN back.records, ks \in KeySets \ {{}} :
             DeleteWith(pkey, ks)

SpecDelete == Init /\ [][DeleteNext]_vars

(* C30: Store.delete(target, F) on an existing record returns with the     *)
(* record still in records, every field of F that the record had set to    *)
(* null, and the primary key posted in the index of each such field at the *)
(* null key and no longer at the old coerced value.                        *)
C30_PartialDeleteStore ==
    last.op = "delete_with" =>
        /\ ~last.err
        /\ last.pkey \in DOMAIN back.records
        /\ \A f \in result.keys \cap DOMAIN result.old_state :
              /\ back.records[last.pkey][f] = None
              /\ None \in IndexedAt(back, f, last.pkey)
              /\ get_hashable(result.old_state[f]) # None =>
                    get_hashable(result.old_state[f]) \notin
                        IndexedAt(back, f, last.pkey)


----------------------------------------------------------------------------
(* The store with values that cannot be hashed *)

(* column "a" holds an integer or a bytearray *)
HashDicts ==
    {d \in UNION {[cs -> {IntV(1), ByteArrayV(1), ListV(1)}] :
                     cs \in SUBSET Columns} :
        /\ "a" \in DOMAIN d => d["a"] \in {IntV(1), ByteArrayV(1)}
        /\ "b" \in DOMAIN d => d["b"] = ListV(1)}

(* the call raised NotHashable(exc.value, key) from the loop of            *)
(* Indexer.insert at one of the fields of bad                              *)
Raised(bad) == {[kind |-> "NotHashable", key |-> key] : key \in bad}

(* Store.create of a target with any values *)
CreateMany(target) ==
    \E o \in {Store_create_many(back, target, NextUuid(Cur), {})} :
    \E out \in (IF o.err
                THEN {Store_create_many(back, target, NextUuid(Cur), done) :
                         done \in Orders(TRUE)}
                ELSE {o}) :
    \E raised \in (IF o.err
                   THEN Raised(InsertRaisesAt(out.s.records[out.pkey],
                                              DOMAIN out.s.records[out.pkey]))
                   ELSE {NoResult}) :
        /\ Becomes([Cur EXCEPT !.back = out.s, !.uuids = @ + out.drawn])
        /\ last' = Last("create_many", out.err, out.pkey)
        /\ result' = raised

(* the fields at which the inserts of Indexer.update raise, when its       *)
(* remove returned                                                         *)
UpdateRaisesAt(st, target, ks) ==
    LET pkey == target[pkey_name]
        keys == IF ks # {} THEN ks ELSE DOMAIN target
        stale_keys == Get(st.keys, pkey, {}) \cap keys
        record == Merge(st.records[pkey], target)
    IN  IF RemoveRaisesAt(IndexerOf(st), st.records[pkey], stale_keys) # {}
        THEN {}
        ELSE IF InsertRaisesAt(record, stale_keys) # {}
        THEN InsertRaisesAt(record, stale_keys)
        ELSE InsertRaisesAt(record, keys \ stale_keys)

(* Store.update of a record of the store with any values *)
UpdateAny(target, ks) ==
    \E o \in {Back_update(Cur, target, ks, {})} :
    \E out \in (IF o.err
                THEN {Back_update(Cur, target, ks, done) :
                         done \in Orders(TRUE)}
                ELSE {o}) :
    \E raised \in (IF UpdateRaisesAt(back, target, ks) # {}
                   THEN Raised(UpdateRaisesAt(back, target, ks))
                   ELSE {NoResult}) :
        /\ Becomes(out.w)
        /\ last' = Last("update_any", out.err, out.pkey)
        /\ result' = raised

HashNext ==
    /\ ops < MaxHashOps
    /\ ops' = ops + 1
    /\ \/ \E target \in HashDicts \cup Keyed(HashDicts, PKeys) :
             CreateMany(target)
       \/ \E target \in Keyed(HashDicts, DOMAIN back.records),
             ks \in {{}, {"a"}} : UpdateAny(target, ks)
       \/ \E pkey \in DOMAIN back.records : Delete(pkey, {})

SpecHash == Init /\ [][HashNext]_vars

(* C31: when an insert into the indices fails with NotHashable, during a   *)
(* create or an update, the error names a field whose value cannot be      *)
(* hashed, and indexer.keys lists for the record only fields for which the *)
(* record is posted in the index of the field.                             *)
C31_NotHashableConsistent ==
    (result.kind = "NotHashable" /\ last.pkey \in DOMAIN back.records) =>
        /\ last.err
        /\ result.key \in DOMAIN back.records[last.pkey]
        /\ ~is_hashable(back.records[last.pkey][result.key])
        /\ \A f \in Get(back.keys, last.pkey, {}) :
              IndexedAt(back, f, last.pkey) # {}


----------------------------------------------------------------------------
(* Transaction.get_many *)

(* front.create_many(back_states.values()): the copies of the back records *)
(* of pkeys are created in the front store, outside the journal            *)
RECURSIVE LoadManyIntoFront(_, _)
LoadManyIntoFront(w, pkeys) ==
    IF pkeys = {} THEN w
    ELSE LET p == CHOOSE x \in pkeys : TRUE
         IN  CHOOSE r \in
                 {LoadManyIntoFront(o.w, pkeys \ {p}) :
                     o \in {LoadIntoFront(w, p)}} : TRUE

(* Transaction.get_many: pkeys -= deleted_pkeys, front.get_many(pkeys),    *)
(* which returns every front record when pkeys is empty, then the missing  *)
(* keys from the back store                                                *)
Transaction_get_many(w, targets) ==
    LET pkeys == targets \ w.deleted
        records == Store_get_many(w.front, pkeys)
        missing_pkey_set == pkeys \ DOMAIN records
        back_states == Store_get_many(w.back, missing_pkey_set)
    IN  IF missing_pkey_set = {} THEN [w |-> w, records |-> records]
        ELSE [w |-> LoadManyIntoFront(w, DOMAIN back_states),
              records |-> Merge(records, back_states)]

TxGetMany(targets) ==
    \E r \in {Transaction_get_many(Cur, targets)} :
        /\ Becomes(r.w)
        /\ last' = Last("tx_get_many", FALSE, None)
        /\ result' = [kind |-> "get_many", targets |-> targets,
                      deleted |-> deleted_pkeys, records |-> r.records]

GetManyNext ==
    /\ ops < MaxGetManyOps
    /\ ops' = ops + 1
    /\ \/ Journaling
       \/ \E targets \in SUBSET KnownPKeys : TxGetMany(targets)

SpecGetMany == TxInit /\ [][GetManyNext]_vars

(* C32: Transaction.get_many returns only records whose primary keys were  *)
(* requested and are not in deleted_pkeys, whatever the request, and the   *)
(* requested keys that the back store has and the transaction has not      *)
(* deleted are in the front store afterwards.                              *)
C32_GetManyRequested ==
    last.op = "tx_get_many" =>
        /\ DOMAIN result.records \subseteq result.targets \ result.deleted
        /\ \A pkey \in (result.targets \ result.deleted)
                          \cap DOMAIN back.records :
              /\ pkey \in DOMAIN front.records
              /\ pkey \in DOMAIN result.records


----------------------------------------------------------------------------
(* Query.subscribe, Query.unsubscribe and the callbacks of Query.execute *)

Callbacks == {"f", "g"}

(* the number of times Query.execute runs execute_callbacks: not at all    *)
(* when it raises or returns early for want of records, for the record and *)
(* again for the return value in single mode, once in mapping mode         *)
Rounds(fetched, r, first) ==
    IF fetched = <<>> \/ r.err THEN 0 ELSE IF first THEN 2 ELSE 1

(* execute_callbacks: every callback of the query is called with the       *)
(* query and the result; calls[func] lists the results func was given      *)
execute_callbacks(callbacks, fetched, r, first) ==
    [func \in callbacks |->
        [i \in 1..Rounds(fetched, r, first) |-> r.returned]]

(* query.subscribe(func) for the callbacks of subscribed, then             *)
(* query.unsubscribe(func) for those of unsubscribed, then execute(first)  *)
ExecuteSubscribed(subscribed, unsubscribed, predicate, first) ==
    \E q \in {[NewQuery EXCEPT !.predicate = predicate]} :
    \E fetched \in Perms(DOMAIN Query_execute(back, predicate)) :
    \E r \in {Query_execute_all(back, q, first, fetched)} :
        /\ Becomes(Cur)
        /\ last' = Last("execute_subscribed", r.err, None)
        /\ result' = [kind |-> "callbacks", subscribed |-> subscribed,
                      unsubscribed |-> unsubscribed, first |-> first,
                      fetched |-> fetched, returned |-> r.returned,
                      calls |-> execute_callbacks(subscribed \ unsubscribed,
                                                  fetched, r, first)]

SubscribeNext ==
    /\ ops < MaxSubscribeOps
    /\ ops' = ops + 1
    /\ \/ StoreCalls(TxDicts, {{}})
       \/ \E subscribed \in SUBSET Callbacks,
             unsubscribed \in SUBSET Callbacks,
             predicate \in SelectPredicates, first \in BOOLEAN :
               ExecuteSubscribed(subscribed, unsubscribed, predicate, first)

SpecSubscribe == Init /\ [][SubscribeNext]_vars

(* C33: every call of Query.execute that returns has called each           *)
(* subscribed callback once, with the result it returns, in single mode as *)
(* in mapping mode, and has not called a callback that was unsubscribed.   *)
C33_CallbacksOnce ==
    (last.op = "execute_subscribed" /\ ~last.err) =>
        /\ \A func \in result.subscribed \ result.unsubscribed :
              /\ func \in DOMAIN result.calls
              /\ result.calls[func] = <<result.returned>>
        /\ \A func \in result.unsubscribed : func \notin DOMAIN result.calls


----------------------------------------------------------------------------
(* the rank of record in the order of ordering: a missing field counts as  *)
(* zero, a descending ordering reverses the ranks                          *)
TupleRank(record, ordering) ==
    LET rank == IF ordering.key \in DOMAIN record
                THEN KeyRank(record[ordering.key]) ELSE 0
    IN  IF ordering.desc THEN 0 - rank ELSE rank

(* x sorts no later than y by orderings i.. of the tuple *)
RECURSIVE TupleLeq(_, _, _, _)
TupleLeq(x, y, orderings, i) ==
    IF i > Len(orderings) THEN TRUE
    ELSE \/ TupleRank(x, orderings[i]) < TupleRank(y, orderings[i])
         \/ /\ TupleRank(x, orderings[i]) = TupleRank(y, orderings[i])
            /\ TupleLeq(x, y, orderings, i + 1)

(* C34: with two or more orderings, execute returns the matched records    *)
(* sorted by the tuple of their per-ordering keys, the first ordering      *)
(* first, each ascending or descending as configured, with a missing       *)
(* field counted as zero.                                                  *)
C34_MultiOrdering ==
    (/\ last.op = "select"
     /\ Len(result.query.orderings) >= 2
     /\ result.fetched # <<>>) =>
        /\ ~last.err
        /\ {result.returned[i] : i \in 1..Len(result.returned)} =
              {back.records[result.fetched[i]] :
                  i \in 1..Len(result.fetched)}
        /\ \A i, j \in 1..Len(result.returned) :
              i < j => TupleLeq(result.returned[i], result.returned[j],
                                result.query.orderings, 1)


----------------------------------------------------------------------------
(* Two threads, each with a transaction of its own on one back store, that *)
(* commit.  Transaction.commit runs under `with self.back.lock:` and the   *)
(* delete_many, create_many and update_many it calls take the same lock    *)
(* again; a `with` block releases the lock when it is left, by its end or  *)
(* by an exception                                                         *)

Threads == {1, 2}

(* RLock.acquire returns at once for the owner and for a free lock, and    *)
(* waits otherwise                                                         *)
CanAcquire_NonReentrant(l, t) == l.owner = 0

CanAcquire(l, t) == l.owner = 0 \/ l.owner = t

Acquire(l, t) == [owner |-> t, count |-> l.count + 1]

Release(l) == IF l.count = 1 THEN NoLock ELSE [l EXCEPT !.count = @ - 1]

(* a thread: where it is, its transaction, the calls its commit has still  *)
(* to make, whether one of them raised, whether it found the lock taken    *)
(* when it called commit, and the number of calls it has made              *)
NewThread ==
    [pc |-> "idle", front |-> NewStore, created |-> {}, updated |-> {},
     deleted |-> {}, pending |-> <<>>, err |-> FALSE, blocked |-> FALSE,
     calls |-> 0]

WorldOf(t) ==
    World(back, threads[t].front, threads[t].created, threads[t].updated,
          threads[t].deleted, uuids)

(* thread t and the back store after a call that leaves the world w *)
ThreadGoes(t, w, pc, pending, err, calls) ==
    /\ back' = w.back
    /\ uuids' = w.uuids
    /\ threads' = [threads EXCEPT ![t] =
                      [@ EXCEPT !.pc = pc, !.front = w.front,
                                !.created = w.created,
                                !.updated = w.updated,
                                !.deleted = w.deleted,
                                !.pending = pending, !.err = err,
                                !.calls = calls]]
    /\ UNCHANGED <<front, created_pkeys, updated_pkeys, deleted_pkeys,
                   result, replay, identity, held, inflight, scope>>

CommitLockInit ==
    /\ back \in SeedStores
    /\ front = NewStore
    /\ created_pkeys = {}
    /\ updated_pkeys = {}
    /\ deleted_pkeys = {}
    /\ uuids = 0
    /\ last = Last("init", FALSE, None)
    /\ result = NoResult
    /\ ops = 0
    /\ replay = Idle
    /\ identity = NoHandles
    /\ held = {}
    /\ inflight = NoCall
    /\ scope = NoScope
    /\ lock = NoLock
    /\ threads = [t \in Threads |-> NewThread]

(* a call of create, update or delete on the transaction of thread t that  *)
(* returns; Transaction.update reads the back store under its lock         *)
ThreadJournal(t) ==
    /\ threads[t].pc = "idle"
    /\ ops < MaxCommitLockOps
    /\ ops' = ops + 1
    /\ \E o \in
          {Transaction_create(WorldOf(t), target) :
              target \in Keyed(TxDicts, PKeys)}
          \cup {Transaction_update(WorldOf(t), target, {}, {}) :
                   target \in IF CanAcquire(lock, t)
                              THEN Keyed(TxDicts, DOMAIN back.records)
                              ELSE {}}
          \cup {Transaction_delete(WorldOf(t), pkey, {}, {}) :
                   pkey \in PKeys} :
          /\ ~o.err
          /\ o.w.uuids <= MaxUuid
          /\ ThreadGoes(t, o.w, "idle", <<>>, FALSE, 0)
    /\ last' = Last("journal", FALSE, None)
    /\ lock' = lock

(* thread t calls commit: the three sets will be iterated in some order *)
CommitRequest(t) ==
    /\ threads[t].pc = "idle"
    /\ \E dorder \in Perms(threads[t].deleted),
          corder \in Perms(threads[t].created \ threads[t].deleted),
          uorder \in Perms(threads[t].updated \ threads[t].deleted) :
          threads' = [threads EXCEPT ![t] =
                         [@ EXCEPT !.pc = "waiting",
                                   !.blocked = ~CanAcquire(lock, t),
                                   !.pending = Calls("delete", dorder)
                                               \o Calls("create", corder)
                                               \o Calls("update", uorder)]]
    /\ last' = Last("commit", FALSE, None)
    /\ UNCHANGED <<back, front, created_pkeys, updated_pkeys, deleted_pkeys,
                   uuids, result, ops, replay, identity, held, inflight,
                   scope, lock>>

(* `with self.back.lock:` of Transaction.commit *)
CommitAcquire(t) ==
    /\ threads[t].pc = "waiting"
    /\ CanAcquire(lock, t)
    /\ lock' = Acquire(lock, t)
    /\ threads' = [threads EXCEPT ![t].pc = "commit"]
    /\ last' = Last("commit_acquire", FALSE, None)
    /\ UNCHANGED <<back, front, created_pkeys, updated_pkeys, deleted_pkeys,
                   uuids, result, ops, replay, identity, held, inflight,
                   scope>>

(* `with self.lock:` of the next call of the commit on the back store *)
CallAcquire(t) ==
    /\ threads[t].pc = "commit"
    /\ threads[t].pending # <<>>
    /\ CanAcquire(lock, t)
    /\ lock' = Acquire(lock, t)
    /\ threads' = [threads EXCEPT ![t].pc = "call"]
    /\ last' = Last("call_acquire", FALSE, None)
    /\ UNCHANGED <<back, front, created_pkeys, updated_pkeys, deleted_pkeys,
                   uuids, result, ops, replay, identity, held, inflight,
                   scope>>

(* the call on one record and the end of its `with` block; a call that     *)
(* raises ends the commit                                                  *)
CallRun(t) ==
    /\ threads[t].pc = "call"
    /\ \E done \in Orders(TRUE) :
          \E o \in {CommitCall(WorldOf(t), Head(threads[t].pending), done)} :
              /\ done = {} \/ o.err
              /\ ThreadGoes(t, o.w, "commit",
                            IF o.err THEN <<>> ELSE Tail(threads[t].pending),
                            o.err, threads[t].calls + 1)
              /\ last' = Last("call_run", o.err, o.pkey)
    /\ lock' = Release(lock)
    /\ ops' = ops

(* self.clear() when no call raised, and the end of the `with` block of    *)
(* Transaction.commit                                                      *)
CommitRelease(t) ==
    /\ threads[t].pc = "commit"
    /\ threads[t].pending = <<>>
    /\ ThreadGoes(t, IF threads[t].err THEN WorldOf(t)
                     ELSE Transaction_clear(WorldOf(t)),
                  "done", <<>>, threads[t].err, threads[t].calls)
    /\ lock' = Release(lock)
    /\ last' = Last("commit_release", threads[t].err, None)
    /\ ops' = ops

(* the steps of the commit of thread t *)
Commits(t) ==
    CommitAcquire(t) \/ CallAcquire(t) \/ CallRun(t) \/ CommitRelease(t)

CommitLockNext ==
    \E t \in Threads :
        \/ ThreadJournal(t)
        \/ CommitRequest(t)
        \/ CommitAcquire(t)
        \/ CallAcquire(t)
        \/ CallRun(t)
        \/ CommitRelease(t)

SpecCommitLock == CommitLockInit /\ [][CommitLockNext]_vars

(* a thread that can run does run: every step of a commit that stays       *)
(* possible is taken                                                       *)
SpecCommitLockFair ==
    SpecCommitLock /\ \A t \in Threads : WF_vars(Commits(t))

InCommit(t) == threads[t].pc \in {"commit", "call"}

(* C35: a commit never waits for the lock it holds: every commit that was  *)
(* called ends with the lock released by its thread, and commits of two    *)
(* transactions on one back store run one after the other and both end.    *)
C35_CommitCompletes ==
    /\ [](\A t, u \in Threads : (InCommit(t) /\ InCommit(u)) => t = u)
    /\ [](\A t \in Threads : InCommit(t) => lock.owner = t)
    /\ \A t \in Threads :
          (threads[t].pc = "waiting")
              ~> (threads[t].pc = "done" /\ lock.owner # t)

(* both commits have ended, each after calls on the back store, and one of *)
(* them found the lock taken by the other                                  *)
C35_Witness ==
    /\ \A t \in Threads : threads[t].pc = "done" /\ threads[t].calls > 0
    /\ \E t \in Threads : threads[t].blocked
    /\ lock = NoLock


----------------------------------------------------------------------------
(* every posting of the indices of st is that of a stored record: the      *)
(* record exists, has the field, and its coerced value is the key          *)
Exact(st) ==
    \A f \in DOMAIN st.indices :
        \A v \in DOMAIN st.indices[f] :
            \A p \in st.indices[f][v] :
                /\ p \in DOMAIN st.records
                /\ f \in DOMAIN st.records[p]
                /\ get_hashable(st.records[p][f]) = v

(* C36: a call of Store.create, update or delete that returns, on a store  *)
(* whose indices hold no stale posting, leaves no stale posting: a primary *)
(* key is posted at key v of the index of f only if its record exists and  *)
(* the coerced value of its field f is v.                                  *)
C36_IndexExact ==
    [][(/\ Exact(back)
        /\ last'.op \in {"create", "update", "update_keys", "delete",
                         "delete_keys"}
        /\ ~last'.err)
       => Exact(back')]_vars


----------------------------------------------------------------------------
(* Handles returned by the reads of a transaction.  A StateDict writes     *)
(* through `self.transaction or self.store`: its backend is the            *)
(* transaction, or else the store whose state_dict_factory built it        *)

(* handles of the front store: one that an earlier call of the transaction *)
(* returned and that is still referenced (owned) is found in the identity  *)
(* map and carries the transaction, a new one does not                     *)
FrontHandles(records, owned) ==
    [p \in DOMAIN records |->
        [data |-> records[p],
         backend |-> IF p \in owned THEN "transaction" ELSE "front"]]

(* handles that back.get_many or the query on the back store built *)
BackHandles(records) ==
    [p \in DOMAIN records |-> [data |-> records[p], backend |-> "back"]]

(* Transaction.get sets record.transaction = self *)
Handles_get(record) ==
    IF record = NoRecord THEN EmptyDict
    ELSE Put(EmptyDict, record[pkey_name],
             [data |-> record, backend |-> "transaction"])

(* Transaction.get_many: records.update(back_states) *)
Handles_get_many(w, targets, owned) ==
    LET pkeys == targets \ w.deleted
        records == Store_get_many(w.front, pkeys)
        missing_pkey_set == pkeys \ DOMAIN records
        back_states == Store_get_many(w.back, missing_pkey_set)
    IN  IF missing_pkey_set = {} THEN FrontHandles(records, owned)
        ELSE Merge(FrontHandles(records, owned), BackHandles(back_states))

(* the query of Transaction.select executed with first=False: merge()      *)
(* updates the result of the back query with that of the front query       *)
Handles_execute(w, predicate, owned) ==
    LET query == Transaction_select(w, predicate)
        back_result == Query_execute(w.back, query)
    IN  IF DOMAIN back_result = {} THEN EmptyDict
        ELSE Merge(BackHandles(back_result),
                   FrontHandles(Query_execute(w.front, query), owned))

HandleRead(w, via, handles) ==
    /\ Becomes(w)
    /\ last' = Last(via, FALSE, None)
    /\ result' = [kind |-> "tx_handles", via |-> via, handles |-> handles]

HandleGet(pkey) ==
    \E r \in {Transaction_get(Cur, pkey)} :
        HandleRead(r.w, "get", Handles_get(r.record))

HandleGetMany(targets, owned) ==
    \E r \in {Transaction_get_many(Cur, targets)} :
        HandleRead(r.w, "get_many", Handles_get_many(Cur, targets, owned))

HandleSelect(predicate, owned) ==
    HandleRead(Cur, "select", Handles_execute(Cur, predicate, owned))

(* StateDict.__setitem__ on a handle of the last read: the dict itself is  *)
(* set, then self.backend.update(self, {key})                              *)
StateDict_setitem(w, handle, key, value, done) ==
    LET state == Put(handle.data, key, value)
    IN  CASE handle.backend = "transaction" ->
                 Transaction_update(w, state, {key}, done)
          [] handle.backend = "front" ->
                 CHOOSE o \in
                     {Out([w EXCEPT !.front = r.s], r.err, state[pkey_name]) :
                         r \in {Store_update(w.front, state, {key}, done)}} :
                     TRUE
          [] handle.backend = "back" -> Back_update(w, state, {key}, done)

HandleWrite ==
    /\ result.kind = "tx_handles"
    /\ \E pkey \in DOMAIN result.handles, key \in Columns :
          \E value \in ValuesOf(key), done \in Orders(TRUE) :
              \E o \in {StateDict_setitem(Cur, result.handles[pkey], key,
                                          value, done)} :
                  /\ done = {} \/ o.err
                  /\ Becomes(o.w)
                  /\ last' = Last("setitem", o.err, pkey)
                  /\ result' = [kind |-> "setitem", via |-> result.via,
                                backend |-> result.handles[pkey].backend,
                                was |-> back]

HandleNext ==
    /\ ops < MaxHandleOps
    /\ ops' = ops + 1
    /\ \/ Journaling
       \/ \E pkey \in KnownPKeys : HandleGet(pkey)
       \/ \E targets \in SUBSET KnownPKeys,
             owned \in SUBSET DOMAIN front.records :
             HandleGetMany(targets, owned)
       \/ \E predicate \in SelectPredicates,
             owned \in SUBSET DOMAIN front.records :
             HandleSelect(predicate, owned)
       \/ HandleWrite

SpecHandle == TxInit /\ [][HandleNext]_vars

(* C37: before commit, setting a field through a handle that a read of the *)
(* transaction returned (get, get_many, or executing the query of select)  *)
(* leaves the back store as it was.                                        *)
C37_HandleWritesFront ==
    result.kind = "setitem" => back = result.was


----------------------------------------------------------------------------
(* A transaction that updates fields of one record while the back store is *)
(* updated by direct calls, and then commits.  result tells the record the *)
(* transaction has updated and the fields its updates named                *)

Tracks(pkey) == result.kind = "tracking" => result.pkey = pkey

(* Transaction.update(target) of a record of the back store *)
TrackedTxUpdate(target) ==
    /\ Tracks(target[pkey_name])
    /\ \E o \in {Transaction_update(Cur, target, {}, {})} :
          /\ ~o.err
          /\ Becomes(o.w)
          /\ last' = Last("tracked_tx_update", FALSE, o.pkey)
          /\ result' = [kind |-> "tracking", pkey |-> o.pkey,
                        changed |-> (IF result.kind = "tracking"
                                     THEN result.changed ELSE {})
                                    \cup (DOMAIN target \ {pkey_name})]

(* Store.update(target) on the back store, by a caller outside the         *)
(* transaction                                                             *)
TrackedStoreUpdate(target) ==
    \E o \in {Back_update(Cur, target, {}, {})} :
        /\ ~o.err
        /\ Becomes(o.w)
        /\ last' = Last("tracked_store_update", FALSE, o.pkey)
        /\ result' = result

(* Transaction.commit that returns *)
TrackedCommit(dorder, corder, uorder) ==
    \E o \in {Transaction_commit(Cur, dorder, corder, uorder, {})} :
        /\ ~o.err
        /\ Becomes(o.w)
        /\ last' = [Last("tracked_commit", FALSE, None)
                       EXCEPT !.journal = Journal]
        /\ result' = NoResult

LostUpdateNext ==
    /\ ops < MaxLostUpdateOps
    /\ ops' = ops + 1
    /\ \/ \E target \in Keyed(ColumnDicts, DOMAIN back.records) :
             TrackedTxUpdate(target)
       \/ \E target \in Keyed(ColumnDicts, DOMAIN back.records) :
             TrackedStoreUpdate(target)
       \/ \E dorder \in Perms(deleted_pkeys),
             corder \in Perms(created_pkeys \ deleted_pkeys),
             uorder \in Perms(updated_pkeys \ deleted_pkeys) :
             TrackedCommit(dorder, corder, uorder)

SpecLostUpdate == TxInit /\ [][LostUpdateNext]_vars

(* C38: the commit of a transaction that updated only some fields of a     *)
(* record changes only those fields of the record in the back store: every *)
(* other field keeps the value it had in the back store before the commit, *)
(* whoever wrote it after the transaction first read the record.           *)
C38_CommitOnlyChanged ==
    [][(/\ last'.op = "tracked_commit"
        /\ result.kind = "tracking"
        /\ result.changed # {}
        /\ result.pkey \in DOMAIN back.records)
       => /\ result.pkey \in DOMAIN back'.records
          /\ \A g \in DOMAIN back.records[result.pkey] \ result.changed :
                /\ g \in DOMAIN back'.records[result.pkey]
                /\ back'.records[result.pkey][g]
                       = back.records[result.pkey][g]]_vars


----------------------------------------------------------------------------
(* Transaction.update_many *)

(* the sequences of one or two targets, of records with different keys *)
TargetSeqs(targets) ==
    {<<t>> : t \in targets}
    \cup {s \in targets \X targets : s[1][pkey_name] # s[2][pkey_name]}

(* front.update_many(records, transaction=self): a target whose primary    *)
(* key is not in the front store is skipped                                *)
RECURSIVE Front_update_many(_, _)
Front_update_many(o, targets) ==
    IF o.err \/ targets = <<>> THEN o
    ELSE LET target == Head(targets)
         IN  IF target[pkey_name] \in DOMAIN o.w.front.records
             THEN CHOOSE n \in
                      {Front_update_many(
                           Out([o.w EXCEPT !.front = r.s,
                                           !.updated =
                                               IF r.err THEN @
                                               ELSE @ \cup
                                                    {target[pkey_name]}],
                               r.err, target[pkey_name]),
                           Tail(targets)) :
                          r \in {Store_update(o.w.front, target, {}, {})}} :
                      TRUE
             ELSE Front_update_many(o, Tail(targets))

(* Transaction.update_many: back.get_many(missing_pkey_set), and the       *)
(* records it returns are created in the front store                       *)
Transaction_update_many(w, targets) ==
    LET pkeys == {targets[i][pkey_name] : i \in DOMAIN targets}
        missing_pkey_set == pkeys \ DOMAIN w.front.records
        back_states == Store_get_many(w.back, missing_pkey_set)
    IN  Front_update_many(
            Out(LoadManyIntoFront(w, DOMAIN back_states), FALSE, None),
            targets)

TxUpdateMany(targets) ==
    \E o \in {Transaction_update_many(Cur, targets)} :
        /\ Becomes(o.w)
        /\ last' = Last("tx_update_many", o.err, None)
        /\ result' = [kind |-> "update_many", targets |-> targets]

UpdateManyNext ==
    /\ ops < MaxUpdateManyOps
    /\ ops' = ops + 1
    /\ \/ Journaling
       \/ \E targets \in TargetSeqs(Keyed(TxDicts, KnownPKeys)) :
             TxUpdateMany(targets)

SpecUpdateMany == TxInit /\ [][UpdateManyNext]_vars

(* the fields of the record of pkey that the targets name *)
Named(targets, pkey) ==
    UNION {DOMAIN targets[i] :
              i \in {j \in DOMAIN targets : targets[j][pkey_name] = pkey}}

(* C39: Transaction.update_many with targets that are all in the front     *)
(* store replaces no record of the front store by its version of the back  *)
(* store: every field of a front record that the targets do not name keeps *)
(* the value it had in the transaction.                                    *)
C39_UpdateManyKeeps ==
    [][(/\ last'.op = "tx_update_many"
        /\ ~last'.err
        /\ \A i \in DOMAIN result'.targets :
              result'.targets[i][pkey_name] \in DOMAIN front.records)
       => \A p \in DOMAIN front.records :
              /\ p \in DOMAIN front'.records
              /\ \A g \in DOMAIN front.records[p]
                            \ Named(result'.targets, p) :
                    /\ g \in DOMAIN front'.records[p]
                    /\ front'.records[p][g] = front.records[p][g]]_vars


----------------------------------------------------------------------------
(* did the ordering of the executed query raise on the fetched records *)
SortFailed(r) ==
    LET records == [i \in 1..Len(r.fetched) |-> back.records[r.fetched[i]]]
    IN  /\ r.query.orderings # <<>>
        /\ records # <<>>
        /\ IF Len(r.query.orderings) = 1
           THEN SortRaises(records, r.query.orderings[1])
           ELSE SortManyRaises(records, r.query.orderings)

(* C40: execute(first=True) returns null and does not raise when no record *)
(* is left to return: no record matches, or records match and the slice of *)
(* the offset and the limit is empty.                                      *)
C40_FirstOfNone ==
    (/\ last.op = "select"
     /\ result.first
     /\ ~SortFailed(result)
     /\ SliceLen(result) = 0)
    => (~last.err /\ result.returned = <<>>)

====
